---------------------------- MODULE Spec2Model ----------------------------
(***************************************************************************)
(* State-machine model of the OrA governance kernel:                       *)
(*   - ImmutableAuditLog   (ora/audit/immutable_log.py)                    *)
(*   - IncidentTracker     (ora/audit/incidents.py)                        *)
(*   - Constitution        (ora/core/constitution.py)                      *)
(*   - OraKernel           (ora/core/kernel.py) with the authority table   *)
(*     (ora/core/authority.py) and the gate coordinator                    *)
(*     (ora/security/gates.py)                                             *)
(* Each component has its own specification (SpecAudit, SpecIncident,      *)
(* SpecConstitution, SpecKernel) over the one set of variables; the        *)
(* components a specification does not step stay in their idle state.      *)
(***************************************************************************)
EXTENDS Integers, Sequences, FiniteSets, TLC

VARIABLES
    \* ---- ImmutableAuditLog: the sqlite table and the instances opened on it
    store,              \* rows of audit_log in id order: [data, signature]
    last_signature,     \* per instance: self._last_signature (the chain head)
    opened,             \* per instance: constructed (__init__ has run)
    lock,               \* per instance: holder of self._lock, 0 when free
    hour,               \* int(time.time() / 3600)
    log_calls,          \* log() calls started so far: the source of entry timestamps
    thr,                \* per thread: position inside log()
    tampered,           \* id of the stored row edited behind the log's back, 0 if none
    verify_result,      \* what the last verify_chain call returned
    \* ---- IncidentTracker
    inc_log,            \* self._log: [type, status, resolution]
    session_counts,     \* self._session_counts (absent key = 0)
    two_strike_triggered,
    inc_call,           \* the last record/resolve call and what it returned
    recorded,           \* per type: record calls made in this session
    escalation_callbacks, \* self._escalation_callbacks: what each callback does
    cb_invoked,         \* the callback invocations made by the last record call
    inc_thr,            \* per thread: position inside record() / resolve()
    \* ---- Constitution
    constraints,        \* self.constraints
    prime_directive,    \* self.prime_directive
    authority_hierarchy,\* self.authority_hierarchy
    immutable_hash,     \* self._immutable_hash
    edits,              \* runtime changes made to the ruleset so far
    validate_result,    \* the last validate_operation call and its outcome
    \* ---- OraKernel
    security_gates,     \* a SecurityGateCoordinator is configured
    audit_logger,       \* an ImmutableAuditLog is configured
    k_pc,               \* position inside process_command
    k_cmd,              \* the command being processed (the words it contains)
    k_op,               \* the parsed Operation
    k_call,             \* what the running process_command call has done so far
    metrics,            \* self._metrics counters
    commands,           \* process_command calls started (len of _operation_history)
    last_result,        \* the KernelResult of the last finished call, with its record
    \* ---- SecurityGateCoordinator
    gate_call,          \* the last run_all_gates call: its request and what it returned
    \* ---- authority.py / ByzantineConsensus
    auth_call,          \* the last authority function called, its arguments and result
    auth_calls,         \* authority function calls made so far
    \* ---- MoneyModZEnforcer
    moneymodz_enabled,  \* self.moneymodz_enabled (MONEYMODZ_ENABLED)
    mmz_active,         \* self._active
    mmz_audit,          \* actions written to moneymodz_audit.jsonl, in order
    mmz_call,           \* the last enforcer call and how it ended
    \* ---- read paths
    last_read,          \* the last query / verify_chain / stats call and its result
    \* ---- ImmutableAuditLog.log return value
    log_ret,            \* what the last finished log() call returned, and on which instance
    \* ---- AuthorityKernel (ora/security/authority_kernel.py)
    current_authority,  \* self.current_authority
    session_escalations,\* self._session_escalations, in creation order
    ak_audit,           \* entries the kernel's audit log has stored: [action, result]
    ak_call,            \* the last AuthorityKernel call and how it went
    \* ---- OrchestratorService (shared/orchestrator/service.py)
    pending_approvals,  \* keys of self.pending_approvals
    approval_history,   \* self.approval_history: [id, status]
    executed,           \* per approval id: approve_and_execute calls made for it
    approvals_created,  \* approval ids handed out so far
    orch_call           \* the last approve / reject / clear_pending call and its result

auditVars == <<store, last_signature, opened, lock, hour, log_calls, thr, tampered,
               verify_result>>
incVars   == <<inc_log, session_counts, two_strike_triggered, inc_call, recorded,
               escalation_callbacks, cb_invoked, inc_thr>>
constVars == <<constraints, prime_directive, authority_hierarchy, immutable_hash,
               edits, validate_result>>
kernelVars == <<security_gates, audit_logger, k_pc, k_cmd, k_op, k_call, metrics,
                commands, last_result>>
gateVars == <<gate_call>>
authVars == <<auth_call, auth_calls>>
mmzVars == <<moneymodz_enabled, mmz_active, mmz_audit, mmz_call>>
readVars == <<last_read>>
logVars == <<log_ret>>
akVars == <<current_authority, session_escalations, ak_audit, ak_call>>
orchVars == <<pending_approvals, approval_history, executed, approvals_created, orch_call>>
svcVars == <<logVars, akVars, orchVars>>
extVars == <<gateVars, authVars, mmzVars, readVars, svcVars>>
vars == <<auditVars, incVars, constVars, kernelVars, extVars>>

----------------------------------------------------------------------------
(***************************************************************************)
(* Bounds of the model                                                     *)
(***************************************************************************)
MaxEntries == 3
NumLogs == 2
NumThreads == 2
MaxHour == 1

Logs == 1..NumLogs
Threads == 1..NumThreads

----------------------------------------------------------------------------
(***************************************************************************)
(* ImmutableAuditLog                                                       *)
(*                                                                         *)
(* sha256 and HMAC-SHA256 are modelled as collision-free: a digest is the  *)
(* tuple of what was hashed, so two digests are equal exactly when their   *)
(* inputs are.  The machine id is the same in every derivation and is left *)
(* out of the key material.                                                *)
(***************************************************************************)
Genesis == <<>>                       \* "0" * 64
Forged == <<"forged">>                \* a signature value no derivation yields

\* _derive_key: sha256(f"{machine_id}:{self._last_signature}:{int(time.time()/3600)}").
\* The key is derived from the instance's cached head, whoever calls it.
DeriveKey(i) == <<last_signature[i], hour>>

\* _sign_entry: hmac(self._derive_key(), json.dumps(entry, sort_keys=True))
SignEntry(i, data) == <<DeriveKey(i), data>>

\* log(), lines 130-140: the payload of an entry (entry_data without the
\* signature).  Each call reads the clock, so timestamps tell entries apart.
EntryData(timestamp, level, action, result) ==
    [timestamp |-> timestamp, level |-> level, action |-> action, result |-> result]

NoData == EntryData(0, "", "", "")

\* What callers log: <<level, action, result>>.
LogInputs == { <<"SECURITY", "escalate", "success">> }

IdleThread == [pc |-> "idle", inst |-> 0, data |-> NoData, sig |-> Genesis]

\* What log() returns: the signature (line 169), or None when the write
\* raised (line 173).  `stored` tells the two apart.
NoSignature == <<"None">>
LogReturn(inst, signature, stored) ==
    [inst |-> inst, signature |-> signature, stored |-> stored]
NoLogReturn == LogReturn(0, NoSignature, FALSE)

\* _load_last_signature: SELECT signature ... ORDER BY id DESC LIMIT 1
LoadLastSignature ==
    IF Len(store) = 0 THEN Genesis ELSE store[Len(store)].signature

\* ImmutableAuditLog.__init__: a further instance is opened on the same database.
Open(i) ==
    /\ ~opened[i]
    /\ opened' = [opened EXCEPT ![i] = TRUE]
    /\ last_signature' = [last_signature EXCEPT ![i] = LoadLastSignature]
    /\ UNCHANGED <<store, lock, hour, log_calls, thr, tampered, verify_result>>
    /\ UNCHANGED <<incVars, constVars, kernelVars, extVars>>

\* log(), line 129: `with self._lock` -- the lock of this instance only.
LogAcquire(t, i, input) ==
    /\ thr[t].pc = "idle"
    /\ opened[i]
    /\ lock[i] = 0
    /\ log_calls < MaxEntries
    /\ lock' = [lock EXCEPT ![i] = t]
    /\ log_calls' = log_calls + 1
    /\ thr' = [thr EXCEPT ![t] = [pc |-> "locked", inst |-> i,
                                  data |-> EntryData(log_calls + 1, input[1], input[2],
                                                     input[3]),
                                  sig |-> Genesis]]
    /\ UNCHANGED <<store, last_signature, opened, hour, tampered, verify_result>>
    /\ UNCHANGED <<incVars, constVars, kernelVars, extVars>>

\* log(), lines 142-144: signature = self._sign_entry(entry_data)
LogSign(t) ==
    /\ thr[t].pc = "locked"
    /\ thr' = [thr EXCEPT ![t].pc = "signed",
                          ![t].sig = SignEntry(thr[t].inst, thr[t].data)]
    /\ UNCHANGED <<store, last_signature, opened, lock, hour, log_calls, tampered,
                   verify_result>>
    /\ UNCHANGED <<incVars, constVars, kernelVars, extVars>>

\* log(), lines 147-164: INSERT and commit.
LogInsert(t) ==
    /\ thr[t].pc = "signed"
    /\ store' = Append(store, [data |-> thr[t].data, signature |-> thr[t].sig])
    /\ thr' = [thr EXCEPT ![t].pc = "inserted"]
    /\ UNCHANGED <<last_signature, opened, lock, hour, log_calls, tampered, verify_result>>
    /\ UNCHANGED <<incVars, constVars, kernelVars, extVars>>

\* log(), lines 171-173: the write raised; nothing is stored, None is returned
\* and the lock is released with the head as it was.
LogInsertFail_MovesHead(t) ==
    /\ thr[t].pc = "signed"
    /\ last_signature' = [last_signature EXCEPT ![thr[t].inst] = thr[t].sig]
    /\ lock' = [lock EXCEPT ![thr[t].inst] = 0]
    /\ thr' = [thr EXCEPT ![t] = IdleThread]
    /\ log_ret' = LogReturn(thr[t].inst, NoSignature, FALSE)
    /\ UNCHANGED <<store, opened, hour, log_calls, tampered, verify_result>>
    /\ UNCHANGED <<incVars, constVars, kernelVars, gateVars, authVars, mmzVars, readVars,
                   akVars, orchVars>>
LogInsertFail(t) ==
    /\ thr[t].pc = "signed"
    /\ lock' = [lock EXCEPT ![thr[t].inst] = 0]
    /\ thr' = [thr EXCEPT ![t] = IdleThread]
    /\ log_ret' = LogReturn(thr[t].inst, NoSignature, FALSE)
    /\ UNCHANGED <<store, last_signature, opened, hour, log_calls, tampered,
                   verify_result>>
    /\ UNCHANGED <<incVars, constVars, kernelVars, gateVars, authVars, mmzVars, readVars,
                   akVars, orchVars>>

\* log(), lines 166-169: self._last_signature = signature; return signature
LogCommit(t) ==
    /\ thr[t].pc = "inserted"
    /\ last_signature' = [last_signature EXCEPT ![thr[t].inst] = thr[t].sig]
    /\ lock' = [lock EXCEPT ![thr[t].inst] = 0]
    /\ thr' = [thr EXCEPT ![t] = IdleThread]
    /\ log_ret' = LogReturn(thr[t].inst, thr[t].sig, TRUE)
    /\ UNCHANGED <<store, opened, hour, log_calls, tampered, verify_result>>
    /\ UNCHANGED <<incVars, constVars, kernelVars, gateVars, authVars, mmzVars, readVars,
                   akVars, orchVars>>

\* The wall clock passes into the next hour bucket.
Tick ==
    /\ hour < MaxHour
    /\ hour' = hour + 1
    /\ UNCHANGED <<store, last_signature, opened, lock, log_calls, thr, tampered,
                   verify_result>>
    /\ UNCHANGED <<incVars, constVars, kernelVars, extVars>>

\* A stored row is edited in the database file: one payload field, or the
\* signature column.
TamperedRow(row, field) ==
    IF field = "signature"
    THEN [row EXCEPT !.signature = Forged]
    ELSE [row EXCEPT !.data.result = "tampered"]

Tamper(k, field) ==
    /\ tampered = 0
    /\ k \in 1..Len(store)
    /\ store' = [store EXCEPT ![k] = TamperedRow(store[k], field)]
    /\ tampered' = k
    /\ UNCHANGED <<last_signature, opened, lock, hour, log_calls, thr, verify_result>>
    /\ UNCHANGED <<incVars, constVars, kernelVars, extVars>>

\* verify_chain(limit=1000), lines 181-187: the last `limit` rows, oldest first.
DefaultLimit == 1000

CheckedRows(limit) ==
    { k \in 1..Len(store) : k > Len(store) - limit }

\* verify_chain, lines 213-216: expected_sig = self._sign_entry(entry_data),
\* compared with the stored signature.  prev_signature is assigned (line 222)
\* and never read.
RowValid(i, k) == SignEntry(i, store[k].data) = store[k].signature

\* The result dict, with what the store looked like when the call was made.
VerifyChain(i, limit) ==
    LET rows == CheckedRows(limit)
        bad == { k \in rows : ~RowValid(i, k) }
    IN [inst |-> i,
        total_checked |-> Cardinality(rows),
        valid |-> Cardinality(rows \ bad),
        invalid |-> Cardinality(bad),
        errors |-> bad,
        stored |-> Len(store),
        tampered |-> tampered,
        quiescent |-> \A t \in Threads : thr[t].pc = "idle"]

NoVerify ==
    [inst |-> 0, total_checked |-> 0, valid |-> 0, invalid |-> 0, errors |-> {},
     stored |-> 0, tampered |-> 0, quiescent |-> TRUE]

VerifyChainCall(i, limit) ==
    /\ opened[i]
    /\ verify_result' = VerifyChain(i, limit)
    /\ UNCHANGED <<store, last_signature, opened, lock, hour, log_calls, thr, tampered>>
    /\ UNCHANGED <<incVars, constVars, kernelVars, extVars>>

AuditIdle ==
    /\ store = <<>>
    /\ last_signature = [i \in Logs |-> Genesis]
    /\ opened = [i \in Logs |-> i = 1]
    /\ lock = [i \in Logs |-> 0]
    /\ hour = 0
    /\ log_calls = 0
    /\ thr = [t \in Threads |-> IdleThread]
    /\ tampered = 0
    /\ verify_result = NoVerify

\* One instance, the only writer of its database, logging from several threads.
ChainHeadNext ==
    \/ \E t \in Threads, d \in LogInputs : LogAcquire(t, 1, d)
    \/ \E t \in Threads : LogSign(t)
    \/ \E t \in Threads : LogInsert(t)
    \/ \E t \in Threads : LogInsertFail(t)
    \/ \E t \in Threads : LogCommit(t)
    \/ Tick

AuditNext ==
    \/ \E i \in Logs : Open(i)
    \/ \E t \in Threads, i \in Logs, d \in LogInputs : LogAcquire(t, i, d)
    \/ \E t \in Threads : LogSign(t)
    \/ \E t \in Threads : LogInsert(t)
    \/ \E t \in Threads : LogInsertFail(t)
    \/ \E t \in Threads : LogCommit(t)
    \/ Tick
    \/ \E k \in 1..MaxEntries, f \in {"result", "signature"} : Tamper(k, f)
    \/ \E i \in Logs, limit \in {1, DefaultLimit} : VerifyChainCall(i, limit)

----------------------------------------------------------------------------
(***************************************************************************)
(* IncidentTracker                                                         *)
(*                                                                         *)
(* An incident's id is its position in self._log (ids are unique).         *)
(***************************************************************************)
MaxIncidents == 4
NumIncidentTypes == 2

AllIncidentTypes ==
    <<"deployment_failure", "security_block", "agent_error", "user_rejection">>
IncidentTypes == { AllIncidentTypes[n] : n \in 1..NumIncidentTypes }
RootCauses == {"cause_a", "cause_b"}
NoResolution == "none"

\* Incident / IncidentEntry as record() builds it: status "open", no resolution.
NewIncident(type) == [type |-> type, status |-> "open", resolution |-> NoResolution]

\* record, line 153: `self._session_counts[incident_type] >= 2`
StrikeReached_AtOne(counts, type) == counts[type] >= 1
StrikeReached(counts, type) == counts[type] >= 2

\* resolve, line 200: any(v >= 2 for v in self._session_counts.values())
StillTriggered_Never(counts) == FALSE
StillTriggered(counts) == \E t \in IncidentTypes : counts[t] >= 2

\* resolve, lines 191-195: entries of the type whose status is not "resolved"
OpenOfType(log, type) ==
    { k \in 1..Len(log) : log[k].type = type /\ log[k].status # "resolved" }

\* on_escalation registers a callable; what matters of it here is whether a
\* call of it returns or raises an Exception.
MaxCallbacks == 2
CallbackBehaviours == {"returns", "raises"}

\* record, lines 159-163: `for cb in ...: try: cb(incident_type, inc_id)
\* except Exception: pass` -- the calls made, in order.
RECURSIVE CallsUntilRaise(_, _)
CallsUntilRaise(callbacks, k) ==
    IF k > Len(callbacks) THEN {}
    ELSE IF callbacks[k] = "raises" THEN {k}
    ELSE {k} \cup CallsUntilRaise(callbacks, k + 1)
Escalate_StopsAtRaise(callbacks, type, id) ==
    [k \in CallsUntilRaise(callbacks, 1) |-> [cb |-> k, type |-> type, id |-> id]]
Escalate(callbacks, type, id) ==
    [k \in 1..Len(callbacks) |-> [cb |-> k, type |-> type, id |-> id]]

\* on_escalation(callback), lines 207-209
OnEscalation(behaviour) ==
    /\ Len(escalation_callbacks) < MaxCallbacks
    /\ escalation_callbacks' = Append(escalation_callbacks, behaviour)
    /\ UNCHANGED <<inc_log, session_counts, two_strike_triggered, inc_call, recorded,
                   cb_invoked, inc_thr>>
    /\ UNCHANGED <<auditVars, constVars, kernelVars, extVars>>

\* record(incident_type, ...), lines 137-165
Record(type) ==
    /\ Len(inc_log) < MaxIncidents
    /\ LET counts == [session_counts EXCEPT ![type] = @ + 1]
       IN /\ inc_log' = Append(inc_log, NewIncident(type))
          /\ session_counts' = counts
          /\ two_strike_triggered' =
                IF StrikeReached(counts, type) /\ ~two_strike_triggered
                THEN TRUE
                ELSE two_strike_triggered
          /\ cb_invoked' =
                IF StrikeReached(counts, type) /\ ~two_strike_triggered
                THEN Escalate(escalation_callbacks, type, Len(inc_log) + 1)
                ELSE <<>>
          /\ inc_call' = [op |-> "record", type |-> type, id |-> Len(inc_log) + 1,
                          ret |-> TRUE, resolve_seen |-> inc_call.resolve_seen]
          /\ recorded' = [recorded EXCEPT ![type] = @ + 1]
          /\ UNCHANGED <<escalation_callbacks, inc_thr>>
    /\ UNCHANGED <<auditVars, constVars, kernelVars, extVars>>

\* resolve(incident_id, root_cause, ...), lines 175-205
Resolve_WholeType(id, cause) ==
    /\ UNCHANGED <<auditVars, constVars, kernelVars, extVars>>
    /\ UNCHANGED <<escalation_callbacks, cb_invoked, inc_thr, recorded>>
    /\ id \in 1..Len(inc_log)
    /\ inc_log' = [k \in 1..Len(inc_log) |->
                      IF inc_log[k].type = inc_log[id].type
                      THEN [inc_log[k] EXCEPT !.status = "resolved", !.resolution = cause]
                      ELSE inc_log[k]]
    /\ session_counts' = [session_counts EXCEPT ![inc_log[id].type] = 0]
    /\ two_strike_triggered' = FALSE
    /\ inc_call' = [op |-> "resolve", type |-> inc_log[id].type, id |-> id, ret |-> TRUE,
                    resolve_seen |-> TRUE]
Resolve(id, cause) ==
    /\ UNCHANGED <<auditVars, constVars, kernelVars, extVars>>
    /\ UNCHANGED <<escalation_callbacks, cb_invoked, inc_thr>>
    /\ IF id \notin 1..Len(inc_log)
       THEN \* lines 176-177: unknown id, return False
            /\ inc_call' = [op |-> "resolve", type |-> "", id |-> id, ret |-> FALSE,
                            resolve_seen |-> TRUE]
            /\ UNCHANGED <<inc_log, session_counts, two_strike_triggered, recorded>>
       ELSE LET type == inc_log[id].type
                log == [inc_log EXCEPT ![id].status = "resolved",
                                       ![id].resolution = cause]
                cleared == OpenOfType(log, type) = {}
                counts == IF cleared THEN [session_counts EXCEPT ![type] = 0]
                          ELSE session_counts
            IN /\ inc_log' = log
               /\ session_counts' = counts
               /\ two_strike_triggered' =
                     IF cleared /\ two_strike_triggered /\ ~StillTriggered(counts)
                     THEN FALSE
                     ELSE two_strike_triggered
               /\ inc_call' = [op |-> "resolve", type |-> type, id |-> id, ret |-> TRUE,
                               resolve_seen |-> TRUE]
               /\ UNCHANGED recorded

NoCall == [op |-> "none", type |-> "", id |-> 0, ret |-> FALSE, resolve_seen |-> FALSE]

\* A thread outside record() and resolve(), and its locals inside them.
IdleIncidentThread == [pc |-> "idle", type |-> "", id |-> 0, count |-> 0, still |-> FALSE]

\* __init__, lines 72-79: a fresh session; _load may bring in an incident
\* written by an earlier session.
IncidentFresh(log) ==
    /\ inc_log = log
    /\ session_counts = [t \in IncidentTypes |-> 0]
    /\ two_strike_triggered = FALSE
    /\ inc_call = NoCall
    /\ recorded = [t \in IncidentTypes |-> 0]
    /\ escalation_callbacks = <<>>
    /\ cb_invoked = <<>>
    /\ inc_thr = [t \in Threads |-> IdleIncidentThread]

LoadedLogs ==
    {<<>>} \cup
    { <<[type |-> t, status |-> s, resolution |-> NoResolution]>> :
        t \in IncidentTypes, s \in {"open", "investigating"} }

IncidentIdle == IncidentFresh(<<>>)

IncidentInit == \E log \in LoadedLogs : IncidentFresh(log)

IncidentNext ==
    \/ \E t \in IncidentTypes : Record(t)
    \/ \E id \in 1..MaxIncidents, c \in RootCauses : Resolve(id, c)

\* The tracker with escalation callbacks registered on it, for up to
\* MaxEscalationIncidents incidents.
MaxEscalationIncidents == 3

EscalationRecord(type) == Len(inc_log) < MaxEscalationIncidents /\ Record(type)

EscalationNext ==
    \/ \E b \in CallbackBehaviours : OnEscalation(b)
    \/ \E t \in IncidentTypes : EscalationRecord(t)
    \/ \E id \in 1..MaxEscalationIncidents : Resolve(id, "cause_a")

(***************************************************************************)
(* record() and resolve() called from several threads on one tracker.  The *)
(* class holds no lock (__init__, lines 72-79), so a thread can be         *)
(* suspended between any two of the statements below, and between the read *)
(* and the write of `counts[t] = counts.get(t, 0) + 1`.                    *)
(***************************************************************************)
MaxThreadedIncidents == 2

IncThreadFrame == UNCHANGED <<auditVars, constVars, kernelVars, extVars>>

\* record, lines 137-149: build the incident, self._log.append(entry)
RecBegin(t, type) ==
    /\ inc_thr[t].pc = "idle"
    /\ Len(inc_log) < MaxThreadedIncidents
    /\ inc_log' = Append(inc_log, NewIncident(type))
    /\ recorded' = [recorded EXCEPT ![type] = @ + 1]
    /\ inc_thr' = [inc_thr EXCEPT ![t] = [pc |-> "rec_read", type |-> type,
                                          id |-> Len(inc_log) + 1, count |-> 0,
                                          still |-> FALSE]]
    /\ UNCHANGED <<session_counts, two_strike_triggered, inc_call,
                   escalation_callbacks, cb_invoked>>
    /\ IncThreadFrame

\* record, line 152, right-hand side: self._session_counts.get(incident_type, 0)
RecRead(t) ==
    /\ inc_thr[t].pc = "rec_read"
    /\ inc_thr' = [inc_thr EXCEPT ![t].pc = "rec_write",
                                  ![t].count = session_counts[inc_thr[t].type]]
    /\ UNCHANGED <<inc_log, session_counts, two_strike_triggered, inc_call, recorded,
                   escalation_callbacks, cb_invoked>>
    /\ IncThreadFrame

\* record, line 152, the store: self._session_counts[incident_type] = ... + 1
RecWrite(t) ==
    /\ inc_thr[t].pc = "rec_write"
    /\ session_counts' = [session_counts EXCEPT ![inc_thr[t].type] = inc_thr[t].count + 1]
    /\ inc_thr' = [inc_thr EXCEPT ![t].pc = "rec_check"]
    /\ UNCHANGED <<inc_log, two_strike_triggered, inc_call, recorded,
                   escalation_callbacks, cb_invoked>>
    /\ IncThreadFrame

\* record, lines 153-165: the threshold test, the flag, the callbacks, return
RecCheck(t) ==
    /\ inc_thr[t].pc = "rec_check"
    /\ LET type == inc_thr[t].type
           fires == StrikeReached(session_counts, type) /\ ~two_strike_triggered
       IN  /\ two_strike_triggered' = (two_strike_triggered \/ fires)
           /\ cb_invoked' = IF fires
                            THEN Escalate(escalation_callbacks, type, inc_thr[t].id)
                            ELSE <<>>
           /\ inc_call' = [op |-> "record", type |-> type, id |-> inc_thr[t].id,
                           ret |-> TRUE, resolve_seen |-> inc_call.resolve_seen]
    /\ inc_thr' = [inc_thr EXCEPT ![t] = IdleIncidentThread]
    /\ UNCHANGED <<inc_log, session_counts, recorded, escalation_callbacks>>
    /\ IncThreadFrame

\* resolve, lines 175-186: look the id up; mark the entry resolved
ResBegin(t, id, cause) ==
    /\ inc_thr[t].pc = "idle"
    /\ IF id \notin 1..Len(inc_log)
       THEN /\ inc_call' = [op |-> "resolve", type |-> "", id |-> id, ret |-> FALSE,
                            resolve_seen |-> TRUE]
            /\ UNCHANGED <<inc_log, inc_thr>>
       ELSE /\ inc_log' = [inc_log EXCEPT ![id].status = "resolved",
                                          ![id].resolution = cause]
            /\ inc_call' = [inc_call EXCEPT !.resolve_seen = TRUE]
            /\ inc_thr' = [inc_thr EXCEPT ![t] = [pc |-> "res_reset",
                                                  type |-> inc_log[id].type,
                                                  id |-> id, count |-> 0,
                                                  still |-> FALSE]]
    /\ UNCHANGED <<session_counts, two_strike_triggered, recorded,
                   escalation_callbacks, cb_invoked>>
    /\ IncThreadFrame

\* The resolve call of thread t returns True.
ResReturn(t) ==
    /\ inc_call' = [op |-> "resolve", type |-> inc_thr[t].type, id |-> inc_thr[t].id,
                    ret |-> TRUE, resolve_seen |-> TRUE]
    /\ inc_thr' = [inc_thr EXCEPT ![t] = IdleIncidentThread]

\* resolve, lines 189-198: open_of_type; reset the type's count when none is
\* open; go on to the flag only when it is set
ResReset(t) ==
    /\ inc_thr[t].pc = "res_reset"
    /\ IF OpenOfType(inc_log, inc_thr[t].type) # {}
       THEN /\ ResReturn(t)
            /\ UNCHANGED session_counts
       ELSE /\ session_counts' = [session_counts EXCEPT ![inc_thr[t].type] = 0]
            /\ IF two_strike_triggered
               THEN /\ inc_thr' = [inc_thr EXCEPT ![t].pc = "res_check"]
                    /\ UNCHANGED inc_call
               ELSE ResReturn(t)
    /\ UNCHANGED <<inc_log, two_strike_triggered, recorded, escalation_callbacks,
                   cb_invoked>>
    /\ IncThreadFrame

\* resolve, line 200: still_triggered = any(v >= 2 for v in counts.values())
ResCheck(t) ==
    /\ inc_thr[t].pc = "res_check"
    /\ inc_thr' = [inc_thr EXCEPT ![t].pc = "res_clear",
                                  ![t].still = StillTriggered(session_counts)]
    /\ UNCHANGED <<inc_log, session_counts, two_strike_triggered, inc_call, recorded,
                   escalation_callbacks, cb_invoked>>
    /\ IncThreadFrame

\* resolve, lines 201-205: clear the flag unless still_triggered; return True
ResClear(t) ==
    /\ inc_thr[t].pc = "res_clear"
    /\ two_strike_triggered' = (two_strike_triggered /\ inc_thr[t].still)
    /\ ResReturn(t)
    /\ UNCHANGED <<inc_log, session_counts, recorded, escalation_callbacks, cb_invoked>>
    /\ IncThreadFrame

IncidentThreadsNext ==
    \/ \E t \in Threads, type \in IncidentTypes : RecBegin(t, type)
    \/ \E t \in Threads : RecRead(t)
    \/ \E t \in Threads : RecWrite(t)
    \/ \E t \in Threads : RecCheck(t)
    \/ \E t \in Threads, id \in 1..MaxThreadedIncidents : ResBegin(t, id, "cause_a")
    \/ \E t \in Threads : ResReset(t)
    \/ \E t \in Threads : ResCheck(t)
    \/ \E t \in Threads : ResClear(t)

----------------------------------------------------------------------------
(***************************************************************************)
(* Authority levels (ora/core/authority.py)                                *)
(***************************************************************************)
READ_ONLY == 0
SAFE_COMPUTE == 1
INFO_RETRIEVAL == 2
FILE_READ == 3
FILE_WRITE == 4
SYSTEM_EXEC == 5

AuthorityLevels ==
    {READ_ONLY, SAFE_COMPUTE, INFO_RETRIEVAL, FILE_READ, FILE_WRITE, SYSTEM_EXEC}

\* get_authority_requirements(level).approval_needed
ApprovalNeeded(level) == level \in {FILE_WRITE, SYSTEM_EXEC}

\* get_authority_requirements(level).consensus_required, lines 102-156
ConsensusRequired(level) ==
    CASE level = FILE_WRITE  -> 4
      [] level = SYSTEM_EXEC -> 7
      [] OTHER               -> 0

\* get_authority_requirements(level).skills_allowed, lines 102-156
SkillsAllowed(level) ==
    CASE level = READ_ONLY      -> {"read_docs"}
      [] level = SAFE_COMPUTE   -> {"math", "text_analysis", "format"}
      [] level = INFO_RETRIEVAL -> {"web_search", "api_query_get"}
      [] level = FILE_READ      -> {"file_read", "dir_list"}
      [] level = FILE_WRITE     -> {"file_write", "file_delete"}
      [] level = SYSTEM_EXEC    -> {"shell_exec", "system_modify", "network_write"}

\* is_operation_authorized(operation_level, agent_level), line 178
IsOperationAuthorized_Swapped(operation_level, agent_level) ==
    operation_level >= agent_level
IsOperationAuthorized(operation_level, agent_level) ==
    agent_level >= operation_level

\* get_byzantine_quorum_size(authority_level, fault_tolerance=1), lines 198-201
DefaultFaultTolerance == 1
GetByzantineQuorumSize(authority_level, fault_tolerance) ==
    IF authority_level < FILE_WRITE THEN 0 ELSE 3 * fault_tolerance + 1

\* ByzantineConsensus.get_required_agents (agents/fleet.py 46-51); the
\* instance's fault_tolerance is not read.
GetRequiredAgents(fault_tolerance, authority_level) ==
    IF authority_level < FILE_WRITE THEN -1
    ELSE IF authority_level = FILE_WRITE THEN 4
    ELSE 7

\* The functions above as called by a client: one call per step.
MaxAuthCalls == 2
MaxFaultTolerance == 2
FaultTolerances == 0..MaxFaultTolerance

AuthCall(fn, a, b, result) == [fn |-> fn, a |-> a, b |-> b, result |-> result]
NoAuthCall == AuthCall("none", 0, 0, 0)

AuthorityStep(call) ==
    /\ auth_calls < MaxAuthCalls
    /\ auth_calls' = auth_calls + 1
    /\ auth_call' = call

CallIsOperationAuthorized(operation_level, agent_level) ==
    /\ AuthorityStep(AuthCall("is_operation_authorized", operation_level, agent_level,
                              IsOperationAuthorized(operation_level, agent_level)))
    /\ UNCHANGED <<auditVars, incVars, constVars, kernelVars, gateVars, mmzVars, readVars,
                 svcVars>>

CallGetByzantineQuorumSize(authority_level, fault_tolerance) ==
    /\ AuthorityStep(AuthCall("get_byzantine_quorum_size", authority_level,
                              fault_tolerance,
                              GetByzantineQuorumSize(authority_level, fault_tolerance)))
    /\ UNCHANGED <<auditVars, incVars, constVars, kernelVars, gateVars, mmzVars, readVars,
                 svcVars>>

CallGetAuthorityRequirements(level) ==
    /\ AuthorityStep(AuthCall("get_authority_requirements", level, 0,
                              ConsensusRequired(level)))
    /\ UNCHANGED <<auditVars, incVars, constVars, kernelVars, gateVars, mmzVars, readVars,
                 svcVars>>

CallGetRequiredAgents(fault_tolerance, authority_level) ==
    /\ AuthorityStep(AuthCall("get_required_agents", authority_level, fault_tolerance,
                              GetRequiredAgents(fault_tolerance, authority_level)))
    /\ UNCHANGED <<auditVars, incVars, constVars, kernelVars, gateVars, mmzVars, readVars,
                 svcVars>>

AuthorityIdle ==
    /\ auth_call = NoAuthCall
    /\ auth_calls = 0

AuthorityNext ==
    \/ \E r \in AuthorityLevels, a \in AuthorityLevels : CallIsOperationAuthorized(r, a)
    \/ \E l \in AuthorityLevels, f \in FaultTolerances : CallGetByzantineQuorumSize(l, f)
    \/ \E l \in AuthorityLevels : CallGetAuthorityRequirements(l)
    \/ \E f \in FaultTolerances, l \in AuthorityLevels : CallGetRequiredAgents(f, l)

----------------------------------------------------------------------------
(***************************************************************************)
(* Texts.  A text is modelled by the set of vocabulary words that occur in *)
(* it as substrings, which is all that the `in` tests and the regular      *)
(* expressions of the code look at.                                        *)
(***************************************************************************)

\* _violates_prime_directive, lines 338-350
HarmfulKeywords ==
    {"destruct", "delete", "remove", "format", "erase", "wipe", "malware",
     "virus", "attack", "exploit", "bypass"}

\* The vocabulary words that occur in each skill name.
SkillText(skill) ==
    CASE skill = "web_search"     -> {"web", "search"}
      [] skill = "file_read"      -> {"file", "read"}
      [] skill = "file_write"     -> {"file", "write"}
      [] skill = "shell_exec"     -> {"shell"}
      [] skill = "math"           -> {"math"}
      [] skill = "file_delete"    -> {"file", "delete"}
      [] skill = "code_analyzer"  -> {"analyze"}
      [] skill = "research"       -> {"search"}
      [] skill = "format"         -> {"format"}
      [] skill = "self_replicate" -> {"self_replicate"}
      [] skill = "modify_kernel"  -> {"modify", "kernel"}
      [] skill = "read_docs"      -> {"read"}
      [] skill = "system_modify"  -> {"modify"}
      [] skill = "network_write"  -> {"write"}
      [] OTHER                    -> {}

\* Operation (constitution.py 57-75): the description and the parameters are texts.
MakeOperation(skill, level, description, parameters) ==
    [skill_name |-> skill, authority_level |-> level,
     description |-> description, parameters |-> parameters]

NoOperation == MakeOperation("", READ_ONLY, {}, {})

----------------------------------------------------------------------------
(***************************************************************************)
(* Constitution                                                            *)
(***************************************************************************)
MaxEdits == 1

PRIME_DIRECTIVE == "PRIME_DIRECTIVE"
AUTHORITY_HIERARCHY == "L0..L5"
VERSION == "2.0.0"

Constraint(article, title, description, levels, enforcement) ==
    [article |-> article, title |-> title, description |-> description,
     authority_levels |-> levels, enforcement |-> enforcement]

\* _load_default_constraints, lines 194-230
DefaultConstraints ==
    << Constraint("ARTICLE_I_SECTION_1", "Prime Directive", PRIME_DIRECTIVE,
                  AuthorityLevels, "strict"),
       Constraint("ARTICLE_II_SECTION_3", "Prohibited Actions", "forbidden",
                  AuthorityLevels, "strict"),
       Constraint("ARTICLE_IV_SECTION_1", "Triple-Lock Verification", "triple-lock",
                  {FILE_WRITE, SYSTEM_EXEC}, "strict"),
       Constraint("ARTICLE_V_SECTION_1", "Post-Quantum Cryptography", "pqc",
                  AuthorityLevels, "strict"),
       Constraint("ARTICLE_VI_SECTION_1", "Immutable Audit Trail", "audit",
                  AuthorityLevels, "strict") >>

\* _compute_hash, lines 239-254: sha256 (collision-free) of the version, the
\* Prime Directive, the hierarchy and, per constraint, its article, title,
\* description and authority levels.
ComputeHash ==
    [version |-> VERSION,
     prime_directive |-> prime_directive,
     authority_hierarchy |-> authority_hierarchy,
     constraints |->
        [k \in 1..Len(constraints) |->
            [article |-> constraints[k].article,
             title |-> constraints[k].title,
             description |-> constraints[k].description,
             authority_levels |-> constraints[k].authority_levels]]]

\* verify_immutability, lines 263-264
VerifyImmutability == ComputeHash = immutable_hash

\* _violates_prime_directive, lines 352-360
ViolatesPrimeDirective(op) ==
    (SkillText(op.skill_name) \cup op.description \cup op.parameters)
        \cap HarmfulKeywords # {}

\* _check_prohibited_operations, lines 372-380
ProhibitedOperation(op) ==
    \/ "self_replicate" \in SkillText(op.skill_name)
    \/ {"kernel", "modify"} \subseteq SkillText(op.skill_name)

\* _enforce_constraint, lines 309-326: what enforcing one constraint raises.
EnforceConstraint(c, op) ==
    IF c.enforcement = "advisory" THEN "ok"
    ELSE IF c.enforcement = "logging" THEN "ok"
    ELSE IF c.article = "ARTICLE_I_SECTION_1" /\ ViolatesPrimeDirective(op)
         THEN "PrimeDirectiveViolation"
    ELSE "ok"

\* validate_operation, lines 287-291: the constraints in list order, from k on.
RECURSIVE EnforceFrom(_, _)
EnforceFrom(k, op) ==
    IF k > Len(constraints) THEN "ok"
    ELSE IF op.authority_level \notin constraints[k].authority_levels
         THEN EnforceFrom(k + 1, op)
    ELSE IF EnforceConstraint(constraints[k], op) # "ok"
         THEN EnforceConstraint(constraints[k], op)
    ELSE EnforceFrom(k + 1, op)

\* validate_operation, lines 284-296: "ok" or the exception raised.
ValidateOperation_ProhibitedFirst(op) ==
    IF ~VerifyImmutability THEN "ConstitutionalViolation"
    ELSE IF ProhibitedOperation(op) THEN "ProhibitedOperationViolation"
    ELSE EnforceFrom(1, op)
ValidateOperation(op) ==
    IF ~VerifyImmutability THEN "ConstitutionalViolation"
    ELSE IF EnforceFrom(1, op) # "ok" THEN EnforceFrom(1, op)
    ELSE IF ProhibitedOperation(op) THEN "ProhibitedOperationViolation"
    ELSE "ok"

\* The ruleset as loaded, and whether the live one differs from it.
Ruleset ==
    [constraints |-> constraints, prime_directive |-> prime_directive,
     authority_hierarchy |-> authority_hierarchy]
LoadedRuleset ==
    [constraints |-> DefaultConstraints, prime_directive |-> PRIME_DIRECTIVE,
     authority_hierarchy |-> AUTHORITY_HIERARCHY]
Altered == Ruleset # LoadedRuleset

\* Runtime changes to the Constitution object (its attributes are plain,
\* writable Python attributes).
EditField(k, field, value) ==
    /\ edits < MaxEdits
    /\ k \in 1..Len(constraints)
    /\ constraints[k][field] # value
    /\ constraints' = [constraints EXCEPT ![k][field] = value]
    /\ edits' = edits + 1
    /\ UNCHANGED <<prime_directive, authority_hierarchy, immutable_hash, validate_result>>
    /\ UNCHANGED <<auditVars, incVars, kernelVars, extVars>>

EditEnforcement(k, mode) == EditField(k, "enforcement", mode)

EditText(k, field) == EditField(k, field, "EDITED")

EditLevels(k, level) ==
    EditField(k, "authority_levels", constraints[k].authority_levels \ {level})

RemoveConstraint(k) ==
    /\ edits < MaxEdits
    /\ k \in 1..Len(constraints)
    /\ constraints' = [j \in 1..(Len(constraints) - 1) |->
                          IF j < k THEN constraints[j] ELSE constraints[j + 1]]
    /\ edits' = edits + 1
    /\ UNCHANGED <<prime_directive, authority_hierarchy, immutable_hash, validate_result>>
    /\ UNCHANGED <<auditVars, incVars, kernelVars, extVars>>

AddConstraint ==
    /\ edits < MaxEdits
    /\ constraints' = Append(constraints,
            Constraint("ARTICLE_X", "Added", "added", AuthorityLevels, "advisory"))
    /\ edits' = edits + 1
    /\ UNCHANGED <<prime_directive, authority_hierarchy, immutable_hash, validate_result>>
    /\ UNCHANGED <<auditVars, incVars, kernelVars, extVars>>

EditPrimeDirective ==
    /\ edits < MaxEdits
    /\ prime_directive # "EDITED"
    /\ prime_directive' = "EDITED"
    /\ edits' = edits + 1
    /\ UNCHANGED <<constraints, authority_hierarchy, immutable_hash, validate_result>>
    /\ UNCHANGED <<auditVars, incVars, kernelVars, extVars>>

EditHierarchy ==
    /\ edits < MaxEdits
    /\ authority_hierarchy # "EDITED"
    /\ authority_hierarchy' = "EDITED"
    /\ edits' = edits + 1
    /\ UNCHANGED <<constraints, prime_directive, immutable_hash, validate_result>>
    /\ UNCHANGED <<auditVars, incVars, kernelVars, extVars>>

\* A direct validate_operation call.
NoValidate == [called |-> FALSE, op |-> NoOperation, outcome |-> "", altered |-> FALSE]

ValidateCall(op) ==
    /\ validate_result' = [called |-> TRUE, op |-> op,
                           outcome |-> ValidateOperation(op), altered |-> Altered]
    /\ UNCHANGED <<constraints, prime_directive, authority_hierarchy, immutable_hash, edits>>
    /\ UNCHANGED <<auditVars, incVars, kernelVars, extVars>>

\* Constitution.__init__, lines 179-184
ConstitutionInit ==
    /\ constraints = DefaultConstraints
    /\ prime_directive = PRIME_DIRECTIVE
    /\ authority_hierarchy = AUTHORITY_HIERARCHY
    /\ immutable_hash = ComputeHash
    /\ edits = 0
    /\ validate_result = NoValidate

ValidatedSkills == {"web_search", "file_delete", "self_replicate", "modify_kernel"}
ValidatedTexts == {{}, {"wipe"}}

ValidatedOperations ==
    { MakeOperation(s, l, d, {}) :
        s \in ValidatedSkills, l \in AuthorityLevels, d \in ValidatedTexts }

ConstitutionNext ==
    \/ \E k \in 1..Len(DefaultConstraints), m \in {"advisory", "logging", "strict"} :
          EditEnforcement(k, m)
    \/ \E k \in 1..Len(DefaultConstraints), f \in {"article", "title", "description"} :
          EditText(k, f)
    \/ \E k \in 1..Len(DefaultConstraints), l \in AuthorityLevels : EditLevels(k, l)
    \/ \E k \in 1..Len(DefaultConstraints) : RemoveConstraint(k)
    \/ AddConstraint
    \/ EditPrimeDirective
    \/ EditHierarchy
    \/ \E op \in ValidatedOperations : ValidateCall(op)

----------------------------------------------------------------------------
(***************************************************************************)
(* SecurityGateCoordinator (ora/security/gates.py)                         *)
(*                                                                         *)
(* A request is a function from its keys to texts.  The words below stand  *)
(* for "the text matches this pattern".                                    *)
(***************************************************************************)
CredentialWord == "sk-XXXXXXXXXXXXXXXXXXXX"     \* matches r"sk-[a-zA-Z0-9_\-]{20,}"
InjectionWord == "ignore previous instructions" \* matches an INJECTION_PATTERNS entry
DangerousWord == "rm -rf /"                     \* matches a DANGEROUS_COMMANDS entry
SafeBaseWord == "ls"                            \* first token is in SAFE_COMMANDS
AllowedHostWord == "localhost"                  \* host is in the allow-list
InWorkspaceWord == "workspace/"                 \* resolves under the workspace root
HighRiskOps ==
    {"terminal.execute", "filesystem.delete", "docker.run", "code_analyzer.execute"}

CheckResult(key, gate, passed, threat) ==
    [key |-> key, gate_name |-> gate, passed |-> passed, threat_detected |-> threat]

\* check_prompt / PromptInjectionScanner.scan
CheckPrompt(text) ==
    LET safe == InjectionWord \notin text
    IN CheckResult(<<"prompt">>, "prompt_injection", safe, ~safe)

\* check_shell_command / ShellCommandSanitizer.validate (allowlist mode)
CheckShellCommand(text) ==
    LET safe == text = {} \/ (DangerousWord \notin text /\ SafeBaseWord \in text)
    IN CheckResult(<<"shell">>, "shell_sanitizer", safe, ~safe)

\* check_sandbox_requirement / SandboxEnforcer.requires_sandbox (sandbox enabled)
CheckSandboxRequirement(text) ==
    LET requires == text \cap HighRiskOps # {}
    IN CheckResult(<<"sandbox">>, "sandbox_enforcer", ~requires, requires)

\* check_credential_exposure / CredentialGuard.scan
CheckCredentialExposure_Blind(key, text) ==
    CheckResult(<<"credential", key>>, "credential_guard", TRUE, FALSE)
CheckCredentialExposure(key, text) ==
    LET safe == CredentialWord \notin text
    IN CheckResult(<<"credential", key>>, "credential_guard", safe, ~safe)

\* check_network_access / NetworkAllowlist.is_allowed
CheckNetworkAccess(text) ==
    LET allowed == AllowedHostWord \in text
    IN CheckResult(<<"network">>, "network_allowlist", allowed, ~allowed)

\* check_workspace_boundary / WorkspaceBoundaryEnforcer.is_within_workspace
CheckWorkspaceBoundary(text) ==
    LET safe == InWorkspaceWord \in text
    IN CheckResult(<<"workspace">>, "workspace_boundary", safe, ~safe)

\* run_all_gates, lines 380-410: the results dict, as the set of its items.
GateResults(request) ==
    LET has(k) == k \in DOMAIN request
    IN  (IF has("prompt") THEN {CheckPrompt(request["prompt"])} ELSE {})
        \cup (IF has("shell_command")
              THEN {CheckShellCommand(request["shell_command"])} ELSE {})
        \cup (IF has("operation")
              THEN {CheckSandboxRequirement(request["operation"])} ELSE {})
        \cup { CheckCredentialExposure(k, request[k]) :
                 k \in { j \in DOMAIN request :
                           ~CheckCredentialExposure(j, request[j]).passed } }
        \cup (IF has("url") THEN {CheckNetworkAccess(request["url"])} ELSE {})
        \cup (IF has("file_path")
              THEN {CheckWorkspaceBoundary(request["file_path"])} ELSE {})

\* run_all_gates, lines 412-424: the dict it returns.
RunAllGates_AnyPassed(request) ==
    [overall_passed |-> \E r \in GateResults(request) : r.passed,
     threat_detected |-> \E r \in GateResults(request) : r.threat_detected,
     gate_results |-> GateResults(request)]
RunAllGates(request) ==
    [overall_passed |-> \A r \in GateResults(request) : r.passed,
     threat_detected |-> \E r \in GateResults(request) : r.threat_detected,
     gate_results |-> GateResults(request)]

\* The requests a caller hands to run_all_gates: up to MaxRequestFields of the
\* keys below, each with one of the texts.
MaxRequestFields == 2
RequestKeys == {"prompt", "shell_command", "operation", "url", "file_path", "content"}
RequestTexts ==
    { {SafeBaseWord}, {SafeBaseWord, CredentialWord}, {InjectionWord},
      {DangerousWord, SafeBaseWord}, {AllowedHostWord}, {InWorkspaceWord},
      {InWorkspaceWord, CredentialWord},
      {"filesystem.delete"}, {"evil.example.com"} }
Requests ==
    UNION { [keys -> RequestTexts] :
              keys \in { ks \in SUBSET RequestKeys : Cardinality(ks) <= MaxRequestFields } }

\* A request about to be handed to run_all_gates.
GateCallOf(request) ==
    [called |-> FALSE, request |-> request, result |-> RunAllGates(<<>>)]

NoGateCall == GateCallOf(<<>>)

\* A direct run_all_gates call on the request at hand.
RunAllGatesCall ==
    /\ ~gate_call.called
    /\ gate_call' = [gate_call EXCEPT !.called = TRUE,
                                      !.result = RunAllGates(gate_call.request)]
    /\ UNCHANGED <<auditVars, incVars, constVars, kernelVars, authVars, mmzVars, readVars,
                 svcVars>>

GatesIdle == gate_call = NoGateCall

GatesInit == \E request \in Requests : gate_call = GateCallOf(request)

GatesNext == RunAllGatesCall

----------------------------------------------------------------------------
(***************************************************************************)
(* OraKernel                                                               *)
(***************************************************************************)
MaxCommands == 2
MaxCommandWords == 2

CommandWords ==
    {"search", "file", "write", "run", "math", "delete", "analyze", "format",
     CredentialWord}
Commands == { c \in SUBSET CommandWords : Cardinality(c) <= MaxCommandWords }

\* parse_command, lines 174-223
ParseCommand(command) ==
    LET has(ws) == command \cap ws # {}
        op(skill, level) == MakeOperation(skill, level, command, command)
    IN  IF has({"search", "web", "find"}) THEN op("web_search", INFO_RETRIEVAL)
        ELSE IF has({"read", "file"}) THEN op("file_read", FILE_READ)
        ELSE IF has({"write", "save", "create"}) THEN op("file_write", FILE_WRITE)
        ELSE IF has({"execute", "run", "shell"}) THEN op("shell_exec", SYSTEM_EXEC)
        ELSE IF has({"calculate", "compute", "math"}) THEN op("math", SAFE_COMPUTE)
        ELSE IF has({"delete", "remove"}) THEN op("file_delete", FILE_WRITE)
        ELSE IF has({"analyze", "review"}) THEN op("code_analyzer", FILE_READ)
        ELSE op("research", INFO_RETRIEVAL)

\* process_command, lines 254-258: the request handed to run_all_gates.
KernelRequest(command) ==
    [k \in {"type", "content", "user"} |-> IF k = "content" THEN command ELSE {}]

\* process_command, line 259: `gate_result.passed`.  run_all_gates returns a
\* dict (gates.py 416-424) and a dict has no attribute `passed`, so the lookup
\* raises AttributeError whatever the gates found.
DictAttributes == {"get", "items", "keys", "values", "update"}
GatePassedLookup(gate_result) ==
    IF "passed" \in DictAttributes
    THEN (IF gate_result.overall_passed THEN "true" ELSE "false")
    ELSE "AttributeError"

\* process_command, lines 272-308: the verdict of each exception handler, as
\* the status returned and the counter incremented.
ViolationVerdict_Swapped(outcome) ==
    CASE outcome = "PrimeDirectiveViolation" ->
            [status |-> "rejected", counter |-> "operations_rejected"]
      [] outcome = "ProhibitedOperationViolation" ->
            [status |-> "rejected", counter |-> "operations_rejected"]
      [] OTHER -> [status |-> "blocked", counter |-> "operations_blocked"]
ViolationVerdict(outcome) ==
    CASE outcome = "PrimeDirectiveViolation" ->
            [status |-> "blocked", counter |-> "operations_blocked"]
      [] outcome = "ProhibitedOperationViolation" ->
            [status |-> "blocked", counter |-> "operations_blocked"]
      [] OTHER -> [status |-> "rejected", counter |-> "operations_rejected"]

\* process_command, lines 326-338: after the audit entry, return
\* pending_approval or go on to _agent_fleet_execute.
AfterAudit_NoApproval(op) == "dispatch"
AfterAudit(op) ==
    IF ApprovalNeeded(op.authority_level) THEN "pending_approval" ELSE "dispatch"

ZeroMetrics ==
    [operations_executed |-> 0, operations_failed |-> 0,
     operations_rejected |-> 0, operations_blocked |-> 0]

Bump(m, counter) == [m EXCEPT ![counter] = @ + 1]

\* What a process_command call has done so far.
NewCall(op) ==
    [level |-> op.authority_level, gates_ran |-> FALSE, gates_passed |-> FALSE,
     validated |-> FALSE, violation |-> "", audit_logged |-> 0,
     dispatched |-> FALSE, metrics_before |-> metrics]

NoCallYet ==
    [level |-> READ_ONLY, gates_ran |-> FALSE, gates_passed |-> FALSE,
     validated |-> FALSE, violation |-> "", audit_logged |-> 0,
     dispatched |-> FALSE, metrics_before |-> ZeroMetrics]

\* KernelResult (kernel.py 60-82): the fields of the dataclass.  The output
\* text is left out; None is the empty tuple.
None == <<>>
KernelResult(status, operation_id, authority_required, requires_approval, approval_id, error) ==
    [status |-> status, operation_id |-> operation_id,
     authority_required |-> authority_required,
     requires_approval |-> requires_approval, approval_id |-> approval_id,
     error |-> error]

\* f"op_{uuid4().hex[:12]}" / f"apr_{uuid4().hex[:12]}": a value drawn for this
\* call; calls are told apart by their number.
OperationId == <<"op", commands>>
ApprovalId == <<"apr", commands>>

NoResult ==
    [status |-> "none", call |-> NoCallYet,
     result |-> KernelResult("none", None, READ_ONLY, FALSE, None, FALSE)]

\* The call returns: the KernelResult, and the coroutine is done.
ReturnResult(result, call) ==
    /\ last_result' = [status |-> result.status, call |-> call, result |-> result]
    /\ k_call' = NoCallYet
    /\ k_pc' = "idle"
    /\ k_cmd' = {}
    /\ k_op' = NoOperation

\* The returns that carry no approval: requires_approval and approval_id keep
\* their defaults; `error` is set by every handler (lines 260-308, 369-385)
\* and relayed from the AgentResult after a dispatch (line 350).
Return(status, call) ==
    ReturnResult(KernelResult(status, OperationId,
                              IF status = "error" /\ ~call.dispatched
                              THEN READ_ONLY ELSE call.level,
                              FALSE, None, status # "success"),
                 call)

\* lines 240-250: parse the command and store the operation
Submit(command) ==
    /\ k_pc = "idle"
    /\ commands < MaxCommands
    /\ commands' = commands + 1
    /\ k_cmd' = command
    /\ k_op' = ParseCommand(command)
    /\ k_call' = NewCall(ParseCommand(command))
    /\ k_pc' = "gates"
    /\ UNCHANGED <<security_gates, audit_logger, metrics, last_result>>
    /\ UNCHANGED <<auditVars, incVars, constVars, extVars>>

\* lines 252-267, and the generic handler of lines 369-385
RunGates ==
    /\ k_pc = "gates"
    /\ IF ~security_gates
       THEN /\ k_pc' = "validate"
            /\ UNCHANGED <<k_cmd, k_op, k_call, metrics, last_result>>
       ELSE LET gate_result == RunAllGates(KernelRequest(k_cmd))
                call == [k_call EXCEPT !.gates_ran = TRUE,
                                       !.gates_passed = gate_result.overall_passed]
                passed == GatePassedLookup(gate_result)
            IN  CASE passed = "AttributeError" ->
                        /\ metrics' = Bump(metrics, "operations_failed")
                        /\ Return("error", call)
                  [] passed = "false" ->
                        /\ metrics' = Bump(metrics, "operations_blocked")
                        /\ Return("blocked", call)
                  [] OTHER ->
                        /\ k_pc' = "validate"
                        /\ k_call' = call
                        /\ UNCHANGED <<k_cmd, k_op, metrics, last_result>>
    /\ UNCHANGED <<security_gates, audit_logger, commands>>
    /\ UNCHANGED <<auditVars, incVars, constVars, extVars>>

\* lines 269-308: constitution.validate_operation and its handlers
Validate ==
    /\ k_pc = "validate"
    /\ LET outcome == ValidateOperation(k_op)
           call == [k_call EXCEPT !.validated = TRUE, !.violation = outcome]
       IN  IF outcome = "ok"
           THEN /\ k_pc' = "audit"
                /\ k_call' = call
                /\ UNCHANGED <<k_cmd, k_op, metrics, last_result>>
           ELSE /\ metrics' = Bump(metrics, ViolationVerdict(outcome).counter)
                /\ Return(ViolationVerdict(outcome).status, call)
    /\ UNCHANGED <<security_gates, audit_logger, commands>>
    /\ UNCHANGED <<auditVars, incVars, constVars, extVars>>

\* lines 313-323: audit_logger.log(..., result="pending"); the kernel's logger
\* is instance 1.  log() is synchronous, so it runs to its end in this step;
\* a failed database write stores nothing and is not reported to the kernel.
AuditPending(written) ==
    /\ k_pc = "audit"
    /\ IF audit_logger /\ written
       THEN LET data == EntryData(log_calls + 1, "OPERATION", k_op.skill_name, "pending")
                sig == SignEntry(1, data)
            IN  /\ store' = Append(store, [data |-> data, signature |-> sig])
                /\ last_signature' = [last_signature EXCEPT ![1] = sig]
                /\ k_call' = [k_call EXCEPT !.audit_logged = @ + 1]
       ELSE UNCHANGED <<store, last_signature, k_call>>
    /\ log_calls' = IF audit_logger THEN log_calls + 1 ELSE log_calls
    /\ k_pc' = "approval"
    /\ UNCHANGED <<opened, lock, hour, thr, tampered, verify_result>>
    /\ UNCHANGED <<security_gates, audit_logger, k_cmd, k_op, metrics, commands,
                   last_result>>
    /\ UNCHANGED <<incVars, constVars, extVars>>

\* lines 325-335: approval required
Approval ==
    /\ k_pc = "approval"
    /\ IF AfterAudit(k_op) = "pending_approval"
       THEN /\ ReturnResult(KernelResult("pending_approval", OperationId, k_call.level,
                                          TRUE, ApprovalId, FALSE),
                             k_call)
            /\ UNCHANGED metrics
       ELSE /\ k_pc' = "dispatch"
            /\ UNCHANGED <<k_cmd, k_op, k_call, metrics, last_result>>
    /\ UNCHANGED <<security_gates, audit_logger, commands>>
    /\ UNCHANGED <<auditVars, incVars, constVars, extVars>>

\* lines 337-351: _agent_fleet_execute returns status "success", or "error"
\* when the API call raised (lines 433-439); the status is relayed as it is.
Dispatch(status) ==
    /\ k_pc = "dispatch"
    /\ metrics' = Bump(metrics, IF status = "success" THEN "operations_executed"
                                ELSE "operations_failed")
    /\ Return(status, [k_call EXCEPT !.dispatched = TRUE])
    /\ UNCHANGED <<security_gates, audit_logger, commands>>
    /\ UNCHANGED <<auditVars, incVars, constVars, extVars>>

\* OraKernel.__init__, lines 119-139
KernelStart(gates, logger) ==
    /\ security_gates = gates
    /\ audit_logger = logger
    /\ k_pc = "idle"
    /\ k_cmd = {}
    /\ k_op = NoOperation
    /\ k_call = NoCallYet
    /\ metrics = ZeroMetrics
    /\ commands = 0
    /\ last_result = NoResult

KernelIdle == KernelStart(FALSE, FALSE)

KernelInit == \E g \in BOOLEAN, l \in BOOLEAN : KernelStart(g, l)

KernelNext ==
    \/ \E c \in Commands : Submit(c)
    \/ RunGates
    \/ Validate
    \/ \E w \in BOOLEAN : AuditPending(w)
    \/ Approval
    \/ \E s \in {"success", "error"} : Dispatch(s)

----------------------------------------------------------------------------
(***************************************************************************)
(* MoneyModZEnforcer (ora/gateway/moneymodz.py)                            *)
(*                                                                         *)
(* A request is [moneymodz, messages, tools]: whether its metadata asks    *)
(* for the mode, whether it has a "messages" key, and the names of its     *)
(* tools.  Each write to moneymodz_audit.jsonl succeeds or raises.         *)
(***************************************************************************)
MaxMmzAudit == 3

\* __init__, lines 47-53
AllowedTools ==
    {"filesystem_read", "code_analyzer_read", "web_search", "api_query_get",
     "moneymodz_health_write"}

MmzRequests ==
    [moneymodz : BOOLEAN, messages : BOOLEAN,
     tools : {{}, {"web_search"}, {"web_search", "shell_exec"}}]

\* enforce_moneymodz_constraints, lines 175-206 (and filter_moneymodz_tools,
\* lines 154-162): the log_moneymodz_action calls the request leads to, in order.
EnforceLogs(request) ==
    IF ~request.moneymodz THEN <<>>
    ELSE IF ~moneymodz_enabled THEN <<"mode_rejected">>
    ELSE <<"mode_activated">>
         \o (IF request.tools \ AllowedTools # {} THEN <<"tools_rejected">> ELSE <<>>)
         \o (IF request.tools # {} THEN <<"tools_filtered">> ELSE <<>>)

\* How enforce_moneymodz_constraints ends when the write numbered fail_at
\* raises (0: none does).  log_moneymodz_action, lines 117-119, turns a
\* failed write into RuntimeError.
EnforceOutcome(request, fail_at) ==
    IF fail_at \in 1..Len(EnforceLogs(request)) THEN "RuntimeError"
    ELSE IF request.moneymodz /\ ~moneymodz_enabled THEN "ValueError"
    ELSE "returned"

NoMmzCall ==
    [op |-> "none", log_failed |-> FALSE, outcome |-> "", active_before |-> FALSE,
     active_asked |-> FALSE]

EnforceMoneymodzConstraints(request, fail_at) ==
    /\ fail_at \in 0..Len(EnforceLogs(request))
    /\ LET logs == EnforceLogs(request)
           written == IF fail_at = 0 THEN logs ELSE SubSeq(logs, 1, fail_at - 1)
       IN  /\ Len(mmz_audit) + Len(written) <= MaxMmzAudit
           /\ mmz_audit' = mmz_audit \o written
    /\ mmz_call' = [op |-> "enforce", log_failed |-> fail_at # 0,
                    outcome |-> EnforceOutcome(request, fail_at),
                    active_before |-> mmz_active, active_asked |-> mmz_active]
    /\ UNCHANGED <<moneymodz_enabled, mmz_active>>
    /\ UNCHANGED <<auditVars, incVars, constVars, kernelVars, gateVars, authVars, readVars,
                 svcVars>>

\* set_active, lines 263-269: the flag is assigned (line 265), then the
\* toggle is logged (lines 266-269).
SetActive(active, log_ok) ==
    /\ Len(mmz_audit) < MaxMmzAudit
    /\ mmz_active' = active
    /\ mmz_audit' = IF log_ok THEN Append(mmz_audit, "mode_toggled") ELSE mmz_audit
    /\ mmz_call' = [op |-> "set_active", log_failed |-> ~log_ok,
                    outcome |-> IF log_ok THEN "returned" ELSE "RuntimeError",
                    active_before |-> mmz_active, active_asked |-> active]
    /\ UNCHANGED moneymodz_enabled
    /\ UNCHANGED <<auditVars, incVars, constVars, kernelVars, gateVars, authVars, readVars,
                 svcVars>>

\* __init__, lines 37-58
MmzStart(enabled) ==
    /\ moneymodz_enabled = enabled
    /\ mmz_active = FALSE
    /\ mmz_audit = <<>>
    /\ mmz_call = NoMmzCall

MmzIdle == MmzStart(FALSE)

MmzInit == \E enabled \in BOOLEAN : MmzStart(enabled)

MmzNext ==
    \/ \E request \in MmzRequests, fail_at \in 0..MaxMmzAudit :
          EnforceMoneymodzConstraints(request, fail_at)
    \/ \E active \in BOOLEAN, log_ok \in BOOLEAN : SetActive(active, log_ok)

----------------------------------------------------------------------------
(***************************************************************************)
(* Read paths: ImmutableAuditLog.query, ImmutableAuditLog.verify_chain and *)
(* IncidentTracker.stats, called between appends and incident operations.  *)
(***************************************************************************)
MaxMixedOps == 2

\* What the audit log and the tracker store.
StoredState ==
    [store |-> store, last_signature |-> last_signature, inc_log |-> inc_log,
     session_counts |-> session_counts, two_strike_triggered |-> two_strike_triggered]

\* verify_chain, lines 189-224: the dict it returns.
VerifyChainResult(i, limit) ==
    [f \in {"total_checked", "valid", "invalid", "errors"} |-> VerifyChain(i, limit)[f]]

\* query(level=..., limit=...), lines 226-253: the rows with that level ("" for
\* no filter), newest timestamp first, at most `limit` of them.
Query(level, limit) ==
    LET match == { k \in 1..Len(store) : level = "" \/ store[k].data.level = level }
        newer(k) == { j \in match : store[j].data.timestamp > store[k].data.timestamp }
    IN  { <<Cardinality(newer(k)) + 1, store[k]>> :
            k \in { m \in match : Cardinality(newer(m)) < limit } }

\* stats, lines 222-246 (the mean time to resolve is computed from stored
\* timestamps only and is left out).
Stats ==
    LET count(status) == Cardinality({ k \in 1..Len(inc_log) : inc_log[k].status = status })
    IN  [total |-> Len(inc_log), open |-> count("open"),
         investigating |-> count("investigating"), resolved |-> count("resolved"),
         two_strike_active |-> two_strike_triggered,
         session_counts |-> session_counts]

NoRead ==
    [op |-> "none", args |-> <<>>, result |-> <<>>, stored |-> <<>>, unchanged |-> TRUE,
     quiescent |-> TRUE, repeated |-> FALSE, same |-> TRUE]

\* A read call: none of the three methods assigns an attribute or writes to
\* the database or the incident file.  The record keeps what the call saw and
\* returned, whether it left the stored state as it was, and, when the same
\* call was made just before with nothing stored in between, whether it
\* returned the same result.
Read(op, args, result) ==
    /\ UNCHANGED <<auditVars, incVars, constVars, kernelVars, gateVars, authVars, mmzVars,
                 svcVars>>
    /\ last_read' =
          [op |-> op, args |-> args, result |-> result,
           stored |-> StoredState, unchanged |-> (StoredState' = StoredState),
           quiescent |-> \A t \in Threads : thr[t].pc = "idle",
           repeated |-> /\ last_read.op = op
                        /\ last_read.args = args
                        /\ last_read.stored = StoredState,
           same |-> (last_read.op # op \/ last_read.result = result)]

ReadVerifyChain(i, limit) ==
    /\ opened[i]
    /\ Read("verify_chain", <<i, limit>>, VerifyChainResult(i, limit))

ReadQuery(i, level, limit) ==
    /\ opened[i]
    /\ Read("query", <<i, level, limit>>, Query(level, limit))

ReadStats == Read("stats", <<>>, Stats)

ReadsIdle == last_read = NoRead

\* Appends and incident operations, at most MaxMixedOps of them started, with
\* reads in between.
MixedOpsLeft == log_calls + Len(inc_log) < MaxMixedOps

AppendStarted(t, i, input) == MixedOpsLeft /\ LogAcquire(t, i, input)

IncidentRecorded(type) == MixedOpsLeft /\ Record(type)

ReadsNext ==
    \/ \E i \in Logs : Open(i)
    \/ \E t \in Threads, i \in Logs, d \in LogInputs : AppendStarted(t, i, d)
    \/ \E t \in Threads : LogSign(t)
    \/ \E t \in Threads : LogInsert(t)
    \/ \E t \in Threads : LogCommit(t)
    \/ Tick
    \/ \E t \in IncidentTypes : IncidentRecorded(t)
    \/ \E id \in 1..MaxMixedOps : Resolve(id, "cause_a")
    \/ \E i \in Logs : ReadVerifyChain(i, DefaultLimit)
    \/ \E i \in Logs, limit \in {1, 100} : ReadQuery(i, "SECURITY", limit)
    \/ ReadStats

----------------------------------------------------------------------------
(***************************************************************************)
(* AuthorityKernel (ora/security/authority_kernel.py)                      *)
(*                                                                         *)
(* An escalation id is the position of the request in creation order (the  *)
(* sha256-derived ids are taken to be unique).  The kernel's audit log is  *)
(* kept as the list of the entries its log() calls managed to store: a     *)
(* log() call whose database write fails stores nothing and returns None.  *)
(***************************************************************************)
GUEST == 0
USER == 1
DEVELOPER == 2
SENIOR == 3
ADMIN == 4
ROOT == 5
AkLevels == GUEST..ROOT

MaxAkCalls == 3

\* AUTHORITY_REQUIREMENTS, lines 61-86, with the default of check_authority
\* (line 243) for an operation that is not listed.
RequiredAuthority(operation) ==
    CASE operation \in {"filesystem.read", "filesystem.list", "code_analyzer.analyze"}
            -> GUEST
      [] operation \in {"filesystem.write", "filesystem.delete", "web_search.search",
                        "browser.navigate"}
            -> USER
      [] operation \in {"terminal.execute", "browser.download", "code_analyzer.modify"}
            -> DEVELOPER
      [] operation \in {"terminal.sudo", "terminal.rm"} -> SENIOR
      [] operation \in {"vault.unlock", "authority.escalate"} -> ADMIN
      [] operation = "vault.destroy" -> ROOT
      [] OTHER -> USER

\* The operations callers ask for.
AkOperations ==
    {"filesystem.read", "filesystem.write", "terminal.execute", "terminal.sudo",
     "vault.destroy", "plugin.run"}

\* AuthorityLevel.can_access, lines 42-44
CanAccess(current, required) == current >= required

\* self.audit_log.log(...): the entry is stored unless the write fails.
AkAuditLog(log, action, result, log_ok) ==
    IF log_ok THEN Append(log, [action |-> action, result |-> result]) ELSE log

EscalationRequest(requested_level, current_level, status) ==
    [requested_level |-> requested_level, current_level |-> current_level,
     status |-> status]

\* A call and how it went: the escalation id or the operation it named, the
\* escalation's status and the authority when it was made, whether the
\* supplied function was invoked, whether the audit entry was stored.
AkCall(op, id, approved, status_before, allowed, invoked, success, logged) ==
    [op |-> op, id |-> id, approved |-> approved, status_before |-> status_before,
     authority_before |-> current_authority, audit_before |-> Len(ak_audit),
     operation |-> "", allowed |-> allowed, invoked |-> invoked, success |-> success,
     logged |-> logged, calls |-> ak_call.calls + 1]

NoAkCall ==
    [op |-> "none", id |-> 0, approved |-> FALSE, status_before |-> "",
     authority_before |-> USER, audit_before |-> 0,
     operation |-> "", allowed |-> FALSE, invoked |-> FALSE, success |-> FALSE,
     logged |-> FALSE, calls |-> 0]

AkFrame ==
    UNCHANGED <<auditVars, incVars, constVars, kernelVars, gateVars, authVars, mmzVars,
                readVars, logVars, orchVars>>

\* escalate(new_level, reason), lines 122-191
EscalateAuthority(new_level, log_ok) ==
    /\ ak_call.calls < MaxAkCalls
    /\ AkFrame
    /\ IF new_level <= current_authority
       THEN \* lines 125-129
            /\ ak_call' = AkCall("escalate", 0, FALSE, "", FALSE, FALSE, TRUE, FALSE)
            /\ UNCHANGED <<current_authority, session_escalations, ak_audit>>
       ELSE IF new_level >= SENIOR
       THEN \* lines 132-167: the attempt is logged, the request is queued
            /\ ak_audit' = AkAuditLog(ak_audit, "escalation_attempt", "pending", log_ok)
            /\ session_escalations' =
                  Append(session_escalations,
                         EscalationRequest(new_level, current_authority, "pending"))
            /\ ak_call' = AkCall("escalate", Len(session_escalations) + 1, FALSE, "",
                                     FALSE, FALSE, FALSE, log_ok)
            /\ UNCHANGED current_authority
       ELSE \* lines 132-145, 169-191: below SENIOR the level is granted at once
            /\ ak_audit' = AkAuditLog(
                              AkAuditLog(ak_audit, "escalation_attempt", "pending", log_ok),
                              "escalation_granted", "success", log_ok)
            /\ current_authority' = new_level
            /\ ak_call' = AkCall("escalate", 0, FALSE, "", FALSE, FALSE, TRUE, log_ok)
            /\ UNCHANGED session_escalations

\* approve_escalation(escalation_id, approved), lines 196-239
ApproveEscalation(escalation_id, approved, log_ok) ==
    /\ ak_call.calls < MaxAkCalls
    /\ AkFrame
    /\ IF escalation_id \notin 1..Len(session_escalations)
       THEN \* lines 197-198
            /\ ak_call' = AkCall("approve_escalation", escalation_id, approved, "",
                                     FALSE, FALSE, FALSE, FALSE)
            /\ UNCHANGED <<current_authority, session_escalations, ak_audit>>
       ELSE LET escalation == session_escalations[escalation_id]
            IN  /\ ak_call' = AkCall("approve_escalation", escalation_id, approved,
                                         escalation.status, FALSE, FALSE, approved, log_ok)
                /\ IF approved
                   THEN \* lines 202-221
                        /\ current_authority' = escalation.requested_level
                        /\ session_escalations' =
                              [session_escalations EXCEPT ![escalation_id].status = "approved"]
                        /\ ak_audit' = AkAuditLog(ak_audit, "escalation_approved",
                                                   "approved", log_ok)
                   ELSE \* lines 222-239
                        /\ session_escalations' =
                              [session_escalations EXCEPT ![escalation_id].status = "denied"]
                        /\ ak_audit' = AkAuditLog(ak_audit, "escalation_denied",
                                                   "denied", log_ok)
                        /\ UNCHANGED current_authority

\* execute_with_authority(operation, func), lines 260-321.  func_ok: the
\* supplied function returns rather than raises.  With the call bound of
\* the model the thresholds of _check_threats are never exceeded.
ExecuteWithAuthority(operation, func_ok, log_ok) ==
    /\ ak_call.calls < MaxAkCalls
    /\ AkFrame
    /\ UNCHANGED <<current_authority, session_escalations>>
    /\ IF ~CanAccess(current_authority, RequiredAuthority(operation))
       THEN \* lines 269-284
            /\ ak_audit' = AkAuditLog(ak_audit, "access_denied", "denied", log_ok)
            /\ ak_call' = [AkCall("execute_with_authority", 0, FALSE, "",
                                   FALSE, FALSE, FALSE, log_ok)
                               EXCEPT !.operation = operation]
       ELSE \* lines 286-321
            /\ ak_audit' = AkAuditLog(ak_audit, operation, "pending", log_ok)
            /\ ak_call' = [AkCall("execute_with_authority", 0, FALSE, "",
                                   TRUE, TRUE, func_ok, log_ok)
                               EXCEPT !.operation = operation]

\* __init__, lines 94-108
AuthorityKernelIdle ==
    /\ current_authority = USER
    /\ session_escalations = <<>>
    /\ ak_audit = <<>>
    /\ ak_call = NoAkCall

AuthorityKernelNext ==
    \/ \E l \in AkLevels, ok \in BOOLEAN : EscalateAuthority(l, ok)
    \/ \E id \in 1..MaxAkCalls, a \in BOOLEAN, ok \in BOOLEAN :
          ApproveEscalation(id, a, ok)
    \/ \E o \in AkOperations, f \in BOOLEAN, ok \in BOOLEAN :
          ExecuteWithAuthority(o, f, ok)

----------------------------------------------------------------------------
(***************************************************************************)
(* OrchestratorService (shared/orchestrator/service.py), driven by the     *)
(* approval endpoints of ora/main.py.  Approval ids ("apr_" + 12 hex       *)
(* digits of a uuid4) are taken to be unique: the n-th id handed out is n. *)
(***************************************************************************)
MaxApprovals == 3
ApprovalIds == 1..MaxApprovals

\* self.pending_approvals.pop(approval_id), lines 111 and 150
PopPending_Keeps(pending, approval_id) == pending
PopPending(pending, approval_id) == pending \ {approval_id}

OrchCall(op, id, was_pending, success, unchanged) ==
    [op |-> op, id |-> id, was_pending |-> was_pending, success |-> success,
     unchanged |-> unchanged]

NoOrchCall == OrchCall("none", 0, FALSE, FALSE, TRUE)

OrchFrame ==
    UNCHANGED <<auditVars, incVars, constVars, kernelVars, gateVars, authVars, mmzVars,
                readVars, logVars, akVars>>

\* process_query, lines 66-93 (and main.py line 221): an action that needs
\* approval is parked under a fresh id.
ProcessQuery ==
    /\ approvals_created < MaxApprovals
    /\ approvals_created' = approvals_created + 1
    /\ pending_approvals' = pending_approvals \cup {approvals_created + 1}
    /\ orch_call' = OrchCall("process_query", approvals_created + 1, FALSE, TRUE, FALSE)
    /\ UNCHANGED <<approval_history, executed>>
    /\ OrchFrame

\* approve(approval_id), lines 108-134, called by approve_action (main.py
\* 288-302).  exec_ok: approve_and_execute returns rather than raises; when
\* it raises, approve_action catches the exception and reports a failure.
Approve(approval_id, exec_ok) ==
    /\ OrchFrame
    /\ UNCHANGED approvals_created
    /\ IF approval_id \notin pending_approvals
       THEN /\ orch_call' = OrchCall("approve", approval_id, FALSE, FALSE, TRUE)
            /\ UNCHANGED <<pending_approvals, approval_history, executed>>
       ELSE /\ pending_approvals' = PopPending(pending_approvals, approval_id)
            /\ executed' = [executed EXCEPT ![approval_id] = @ + 1]
            /\ approval_history' =
                  IF exec_ok
                  THEN Append(approval_history, [id |-> approval_id, status |-> "approved"])
                  ELSE approval_history
            /\ orch_call' = OrchCall("approve", approval_id, TRUE, exec_ok, FALSE)

\* reject(approval_id), lines 147-171, called by reject_action (main.py 305-319)
Reject(approval_id) ==
    /\ OrchFrame
    /\ UNCHANGED <<approvals_created, executed>>
    /\ IF approval_id \notin pending_approvals
       THEN /\ orch_call' = OrchCall("reject", approval_id, FALSE, FALSE, TRUE)
            /\ UNCHANGED <<pending_approvals, approval_history>>
       ELSE /\ pending_approvals' = PopPending(pending_approvals, approval_id)
            /\ approval_history' =
                  Append(approval_history, [id |-> approval_id, status |-> "rejected"])
            /\ orch_call' = OrchCall("reject", approval_id, TRUE, TRUE, FALSE)

\* clear_pending, lines 201-205
ClearPending ==
    /\ OrchFrame
    /\ pending_approvals' = {}
    /\ orch_call' = OrchCall("clear_pending", 0, FALSE, TRUE, pending_approvals = {})
    /\ UNCHANGED <<approval_history, executed, approvals_created>>

\* __init__, lines 40-49
OrchestratorIdle ==
    /\ pending_approvals = {}
    /\ approval_history = <<>>
    /\ executed = [id \in ApprovalIds |-> 0]
    /\ approvals_created = 0
    /\ orch_call = NoOrchCall

OrchestratorNext ==
    \/ ProcessQuery
    \/ \E id \in ApprovalIds, ok \in BOOLEAN : Approve(id, ok)
    \/ \E id \in ApprovalIds : Reject(id)
    \/ ClearPending

LogReturnIdle == log_ret = NoLogReturn

SvcIdle == LogReturnIdle /\ AuthorityKernelIdle /\ OrchestratorIdle

----------------------------------------------------------------------------
(***************************************************************************)
(* Specifications                                                          *)
(***************************************************************************)
\* The components a specification does not step, as constructed.
ExtIdle == GatesIdle /\ AuthorityIdle /\ MmzIdle /\ ReadsIdle /\ SvcIdle

InitAudit == AuditIdle /\ IncidentIdle /\ ConstitutionInit /\ KernelIdle /\ ExtIdle
NextAudit == AuditNext
SpecAudit == InitAudit /\ [][NextAudit]_vars

InitIncident == AuditIdle /\ IncidentInit /\ ConstitutionInit /\ KernelIdle /\ ExtIdle
NextIncident == IncidentNext
SpecIncident == InitIncident /\ [][NextIncident]_vars

InitConstitution ==
    AuditIdle /\ IncidentIdle /\ ConstitutionInit /\ KernelIdle /\ ExtIdle
NextConstitution == ConstitutionNext
SpecConstitution == InitConstitution /\ [][NextConstitution]_vars

\* The kernel runs against a Constitution object that may be changed while
\* it runs: in a way the fingerprint covers, or in one it does not.
KernelConstitutionEdit ==
    \/ EditPrimeDirective
    \/ \E k \in 1..Len(DefaultConstraints), m \in {"advisory", "logging"} :
          EditEnforcement(k, m)

InitKernel == AuditIdle /\ IncidentIdle /\ ConstitutionInit /\ KernelInit /\ ExtIdle
NextKernel ==
    \/ KernelNext
    \/ KernelConstitutionEdit
SpecKernel == InitKernel /\ [][NextKernel]_vars

CoreIdle == AuditIdle /\ IncidentIdle /\ ConstitutionInit /\ KernelIdle

InitEscalation == CoreIdle /\ ExtIdle
NextEscalation == EscalationNext
SpecEscalation == InitEscalation /\ [][NextEscalation]_vars

InitIncidentThreads == CoreIdle /\ ExtIdle
NextIncidentThreads == IncidentThreadsNext
SpecIncidentThreads == InitIncidentThreads /\ [][NextIncidentThreads]_vars

InitGates == CoreIdle /\ GatesInit /\ AuthorityIdle /\ MmzIdle /\ ReadsIdle /\ SvcIdle
NextGates == GatesNext
SpecGates == InitGates /\ [][NextGates]_vars

InitAuthority == CoreIdle /\ ExtIdle
NextAuthority == AuthorityNext
SpecAuthority == InitAuthority /\ [][NextAuthority]_vars

InitMoneyModZ ==
    CoreIdle /\ GatesIdle /\ AuthorityIdle /\ MmzInit /\ ReadsIdle /\ SvcIdle
NextMoneyModZ == MmzNext
SpecMoneyModZ == InitMoneyModZ /\ [][NextMoneyModZ]_vars

InitReads == CoreIdle /\ ExtIdle
NextReads == ReadsNext
SpecReads == InitReads /\ [][NextReads]_vars

InitChainHead == CoreIdle /\ ExtIdle
NextChainHead == ChainHeadNext
SpecChainHead == InitChainHead /\ [][NextChainHead]_vars

InitAuthorityKernel == CoreIdle /\ ExtIdle
NextAuthorityKernel == AuthorityKernelNext
SpecAuthorityKernel == InitAuthorityKernel /\ [][NextAuthorityKernel]_vars

InitOrchestrator == CoreIdle /\ ExtIdle
NextOrchestrator == OrchestratorNext
SpecOrchestrator == InitOrchestrator /\ [][NextOrchestrator]_vars

----------------------------------------------------------------------------
(***************************************************************************)
(* Properties                                                              *)
(***************************************************************************)

\* The conditions under which process_command may reach _agent_fleet_execute.
DispatchAllowed(call) ==
    /\ security_gates => (call.gates_ran /\ call.gates_passed)
    /\ call.validated /\ call.violation = "ok"
    /\ ~ApprovalNeeded(call.level)

\* C1: the external execution dispatch is reached only for a command whose
\* gate run passed (when a coordinator is configured), whose constitution
\* validation raised nothing and whose level needs no approval; a command
\* that ends blocked, rejected or pending_approval was never dispatched.
C1_DispatchOnlyAfterChecks ==
    /\ k_pc = "dispatch" => DispatchAllowed(k_call)
    /\ last_result.call.dispatched => DispatchAllowed(last_result.call)
    /\ last_result.status \in {"blocked", "rejected", "pending_approval"}
          => ~last_result.call.dispatched

C1_Witness ==
    /\ last_result.status = "success"
    /\ last_result.call.dispatched
    /\ last_result.call.violation = "ok"

\* C2: after N >= 1 completed log calls and no stored entry modified,
\* verify_chain over all N entries reports 0 invalid and N valid entries.
C2_RoundTrip ==
    ( /\ verify_result.inst # 0
      /\ verify_result.quiescent
      /\ verify_result.tampered = 0
      /\ verify_result.stored >= 1
      /\ verify_result.total_checked = verify_result.stored )
    => /\ verify_result.invalid = 0
       /\ verify_result.valid = verify_result.stored

\* C3: if stored entry k has a field modified, verify_chain over all entries
\* reports entry k and every entry appended after it as invalid.
C3_ChainPropagation ==
    ( /\ verify_result.inst # 0
      /\ verify_result.quiescent
      /\ verify_result.tampered # 0
      /\ verify_result.total_checked = verify_result.stored )
    => \A k \in verify_result.tampered..verify_result.stored :
          k \in verify_result.errors

\* The signature a stored signature's key was derived from.
Predecessor(signature) == signature[1][1]

\* C4: appends are serialized in strict append order: every stored entry's
\* signature was derived from the signature of the entry stored immediately
\* before it, and no two stored entries were derived from the same predecessor.
C4_SerializedAppends ==
    tampered = 0 =>
        /\ \A k \in 1..Len(store) :
              Predecessor(store[k].signature) =
                 (IF k = 1 THEN Genesis ELSE store[k - 1].signature)
        /\ \A j, k \in 1..Len(store) :
              j # k => Predecessor(store[j].signature) # Predecessor(store[k].signature)

\* C5: in a fresh session (no resolve yet), a type recorded twice sets
\* two_strike_triggered, and types recorded at most once each leave it false.
C5_TwoStrikeTrigger ==
    ~inc_call.resolve_seen =>
        /\ (\E t \in IncidentTypes : recorded[t] >= 2) => two_strike_triggered
        /\ (\A t \in IncidentTypes : recorded[t] <= 1) => ~two_strike_triggered

C5_Witness ==
    /\ ~inc_call.resolve_seen
    /\ \E t \in IncidentTypes :
          /\ recorded[t] = 2
          /\ \A u \in IncidentTypes \ {t} : recorded[u] = 0
    /\ two_strike_triggered

\* C6: the pause flag is cleared only by a resolve call, and only when no
\* type has a session count of 2 or more afterwards; a resolve that closes the
\* last open incident of a tripped type clears the flag if no other type is at
\* or above 2 and leaves it set if another type is.
C6_Step ==
    /\ (two_strike_triggered /\ ~two_strike_triggered') =>
          /\ inc_call'.op = "resolve"
          /\ \A t \in IncidentTypes : session_counts'[t] < 2
    /\ ( /\ inc_call'.op = "resolve"
         /\ inc_call'.ret
         /\ two_strike_triggered
         /\ session_counts[inc_call'.type] >= 2
         /\ OpenOfType(inc_log', inc_call'.type) = {} )
       => (two_strike_triggered' <=>
             \E t \in IncidentTypes \ {inc_call'.type} : session_counts[t] >= 2)

\* C6: every step of the incident log satisfies the clearing rule above: the
\* flag falls only in a resolve call that leaves no type at two or more.
C6_TwoStrikeClearing == [][C6_Step]_vars

C6_Witness ==
    /\ inc_call.op = "resolve"
    /\ inc_call.ret
    /\ recorded[inc_call.type] >= 2
    /\ OpenOfType(inc_log, inc_call.type) = {}
    /\ session_counts[inc_call.type] = 0
    /\ two_strike_triggered

\* C7: once the loaded ruleset has been changed in any way, every
\* validate_operation raises ConstitutionalViolation.
C7_AlteredRulesetRefused ==
    (validate_result.called /\ validate_result.altered)
        => validate_result.outcome = "ConstitutionalViolation"

\* C8: every process_command call appends a 'pending' audit entry before a
\* verdict is returned, so a command that ends blocked has left an entry.
C8_BlockedLeavesAuditEntry ==
    (audit_logger /\ last_result.status = "blocked")
        => last_result.call.audit_logged >= 1

\* C9: when the configured gates report an overall failure, process_command
\* returns 'blocked', increments operations_blocked by one and leaves the
\* executed, failed and rejected counters unchanged.
C9_GateFailureBlocks ==
    (last_result.call.gates_ran /\ ~last_result.call.gates_passed)
        => /\ last_result.status = "blocked"
           /\ metrics = Bump(last_result.call.metrics_before, "operations_blocked")

\* C10: a PrimeDirectiveViolation or ProhibitedOperationViolation yields
\* 'blocked' and increments only operations_blocked; any other
\* ConstitutionalViolation yields 'rejected' and increments only
\* operations_rejected.
C10_VerdictMapping ==
    /\ last_result.call.violation \in
            {"PrimeDirectiveViolation", "ProhibitedOperationViolation"}
          => /\ last_result.status = "blocked"
             /\ metrics = Bump(last_result.call.metrics_before, "operations_blocked")
    /\ last_result.call.violation = "ConstitutionalViolation"
          => /\ last_result.status = "rejected"
             /\ metrics = Bump(last_result.call.metrics_before, "operations_rejected")

C10_Witness ==
    /\ last_result.call.violation = "ConstitutionalViolation"
    /\ last_result.status = "rejected"
    /\ metrics.operations_blocked = 1
    /\ metrics.operations_rejected = 1

\* The quorum size a KernelResult carries, -1 when it has no such field.
AttachedQuorum(result) ==
    IF "consensus_required" \in DOMAIN result THEN result.consensus_required ELSE -1

LastAuditOutcome ==
    IF store = <<>> THEN "none" ELSE store[Len(store)].data.result

\* C12: after a dispatch, success increments operations_executed and leaves
\* an audit entry with outcome 'success'; failure increments
\* operations_failed, leaves an entry with outcome 'failure' and returns
\* status 'rejected'.
C12_DispatchOutcomeRelayed ==
    (audit_logger /\ last_result.call.dispatched) =>
        IF last_result.status = "success"
        THEN /\ metrics = Bump(last_result.call.metrics_before, "operations_executed")
             /\ LastAuditOutcome = "success"
        ELSE /\ metrics = Bump(last_result.call.metrics_before, "operations_failed")
             /\ LastAuditOutcome = "failure"
             /\ last_result.status = "rejected"

\* C13: in a step that takes the two-strike flag from false to true, a
\* record call has invoked every registered callback exactly once, in order,
\* with the type and the id of the incident just recorded, whether or not a
\* callback raised, and record has stored the incident and returned its id.
C13_Step ==
    (~two_strike_triggered /\ two_strike_triggered') =>
        /\ inc_call'.op = "record"
        /\ inc_call'.ret
        /\ inc_call'.id = Len(inc_log')
        /\ inc_log'[inc_call'.id].type = inc_call'.type
        /\ DOMAIN cb_invoked' = 1..Len(escalation_callbacks)
        /\ \A k \in 1..Len(escalation_callbacks) :
              cb_invoked'[k] = [cb |-> k, type |-> inc_call'.type, id |-> inc_call'.id]

\* C13: every step of the tracker satisfies the escalation rule above.
C13_EscalationCallbacks == [][C13_Step]_vars

C13_Witness ==
    /\ two_strike_triggered
    /\ inc_call.op = "record"
    /\ Len(escalation_callbacks) = 2
    /\ escalation_callbacks[1] = "raises"
    /\ Len(cb_invoked) = 2
    /\ cb_invoked[2].id = inc_call.id

\* The request field whose presence makes run_all_gates produce the result
\* stored under `key`.
GateField(key) ==
    CASE key[1] = "prompt"     -> "prompt"
      [] key[1] = "shell"      -> "shell_command"
      [] key[1] = "sandbox"    -> "operation"
      [] key[1] = "network"    -> "url"
      [] key[1] = "workspace"  -> "file_path"
      [] key[1] = "credential" -> key[2]

\* C14: overall_passed is the AND of the passed flags of the gate results
\* produced, threat_detected the OR of their threat flags, and a gate result
\* is produced only when the request has that gate's field.
C14_GateComposition ==
    gate_call.called =>
        LET r == gate_call.result
        IN  /\ r.overall_passed <=> (\A g \in r.gate_results : g.passed)
            /\ r.threat_detected <=> (\E g \in r.gate_results : g.threat_detected)
            /\ \A g \in r.gate_results : GateField(g.key) \in DOMAIN gate_call.request

C14_Witness ==
    /\ gate_call.called
    /\ ~gate_call.result.overall_passed
    /\ \E g \in gate_call.result.gate_results : g.passed
    /\ "url" \notin DOMAIN gate_call.request
    /\ \A g \in gate_call.result.gate_results : g.key[1] # "network"

\* A request with a safe shell command and a credential-shaped string in
\* some field.
CredentialWithSafeCommand(request) ==
    /\ "shell_command" \in DOMAIN request
    /\ DangerousWord \notin request["shell_command"]
    /\ SafeBaseWord \in request["shell_command"]
    /\ \E k \in DOMAIN request : CredentialWord \in request[k]

CredentialGateFlagged(result) ==
    /\ ~result.overall_passed
    /\ result.threat_detected
    /\ \E g \in result.gate_results : g.key[1] = "credential" /\ ~g.passed

\* C15 as stated: a credential-shaped string with a safe shell command is
\* reported failed, flagged and attributed to the credential gate, and a
\* request whose only field is a file path inside the workspace passes.
C15_Original ==
    gate_call.called =>
        /\ CredentialWithSafeCommand(gate_call.request)
              => CredentialGateFlagged(gate_call.result)
        /\ ( /\ DOMAIN gate_call.request = {"file_path"}
             /\ InWorkspaceWord \in gate_call.request["file_path"] )
              => gate_call.result.overall_passed

\* C15, amended: as above, where the file path inside the workspace does
\* not itself contain a credential-shaped string.
C15_CredentialAndWorkspace ==
    gate_call.called =>
        /\ CredentialWithSafeCommand(gate_call.request)
              => CredentialGateFlagged(gate_call.result)
        /\ ( /\ DOMAIN gate_call.request = {"file_path"}
             /\ InWorkspaceWord \in gate_call.request["file_path"]
             /\ CredentialWord \notin gate_call.request["file_path"] )
              => gate_call.result.overall_passed

C15_Witness ==
    /\ gate_call.called
    /\ DOMAIN gate_call.request = {"shell_command", "content"}
    /\ gate_call.request["shell_command"] = {SafeBaseWord}
    /\ CredentialWord \in gate_call.request["content"]
    /\ CredentialGateFlagged(gate_call.result)

\* C16: a query, verify_chain or stats call made after completed appends and
\* incident operations leaves the stored audit entries,
\* the chain heads, the incident log, the session counts and the pause flag
\* as they were, and returns what the same call returned just before when
\* nothing was stored in between.
C16_ReadsArePure ==
    (last_read.op # "none" /\ last_read.quiescent) =>
        /\ last_read.unchanged
        /\ last_read.repeated => last_read.same

\* C17: is_operation_authorized(required, actor) is true exactly when the
\* actor's level value is at least the required level's value.
C17_MonotonicAuthority ==
    auth_call.fn = "is_operation_authorized" =>
        (auth_call.result <=> auth_call.b >= auth_call.a)

C17_Witness ==
    /\ auth_call.fn = "is_operation_authorized"
    /\ auth_call.a = FILE_WRITE
    /\ auth_call.b = FILE_READ
    /\ auth_call.result = FALSE

\* The quorum the levels are said to need.
StatedQuorum(level) ==
    IF level = FILE_WRITE THEN 4 ELSE IF level = SYSTEM_EXEC THEN 7 ELSE 0

\* C18: get_byzantine_quorum_size with the default fault tolerance,
\* get_authority_requirements(...).consensus_required and
\* get_required_agents each give 0 below FILE_WRITE, 4 for FILE_WRITE and 7
\* for SYSTEM_EXEC.
C18_QuorumSizes ==
    /\ (auth_call.fn = "get_byzantine_quorum_size" /\ auth_call.b = DefaultFaultTolerance)
          => auth_call.result = StatedQuorum(auth_call.a)
    /\ auth_call.fn = "get_authority_requirements"
          => auth_call.result = StatedQuorum(auth_call.a)
    /\ auth_call.fn = "get_required_agents"
          => auth_call.result = StatedQuorum(auth_call.a)

\* C19: when a MoneyModZ audit write fails, the call raises instead of
\* returning, and set_active leaves the active flag as it was before the call.
C19_FailClosedAudit ==
    mmz_call.log_failed =>
        /\ mmz_call.outcome = "RuntimeError"
        /\ mmz_call.op = "set_active" => mmz_active = mmz_call.active_before

\* C20: with record and resolve called from several threads, no update to
\* the session counts or the pause flag is lost: once every call has
\* returned (and none was a resolve), each type's count is the number of
\* record calls made for it, and the flag is set if some type was recorded
\* twice.
C20_NoLostUpdate ==
    ( /\ \A t \in Threads : inc_thr[t].pc = "idle"
      /\ ~inc_call.resolve_seen )
    => \A type \in IncidentTypes :
          /\ session_counts[type] = recorded[type]
          /\ recorded[type] >= 2 => two_strike_triggered

\* The thread inside log() on instance i, 0 when there is none.
LogHolder(i) == lock[i]

\* C21, between and inside calls: while no log call on the instance has
\* inserted without yet returning, the chain head is the signature of the
\* most recently stored entry, or the genesis value when nothing is stored;
\* a call that has inserted has stored the signature it is about to return.
C21_HeadIsLastStored ==
    IF LogHolder(1) # 0 /\ thr[LogHolder(1)].pc = "inserted"
    THEN store[Len(store)].signature = thr[LogHolder(1)].sig
    ELSE last_signature[1] = (IF store = <<>> THEN Genesis
                              ELSE store[Len(store)].signature)

\* C21, at a return of log(): a successful call returns the signature of the
\* newest stored entry, now the head; a failed call returns no signature and
\* leaves the head and the stored entries as they were.
C21_Return ==
    (\E t \in Threads : thr[t].pc # "idle" /\ thr'[t].pc = "idle") =>
        IF log_ret'.stored
        THEN /\ log_ret'.signature = store'[Len(store')].signature
             /\ last_signature'[log_ret'.inst] = log_ret'.signature
        ELSE /\ log_ret'.signature = NoSignature
             /\ store' = store
             /\ last_signature' = last_signature

\* C21: after any sequence of log calls on one ImmutableAuditLog the chain
\* head equals the signature of the most recently stored entry (genesis
\* when nothing is stored); a successful log stores the signature it returns
\* and makes it the head, a failed log returns none and changes neither.
C21_ChainHead == []C21_HeadIsLastStored /\ [][C21_Return]_vars

C21_Witness ==
    /\ Len(store) = 2
    /\ log_calls = 3
    /\ ~log_ret.stored
    /\ log_ret.inst = 1
    /\ last_signature[1] = store[2].signature

\* A step that is a record call, and the type it records.
RecordStep == recorded' # recorded

\* C22: whenever record is called for a type that was already recorded
\* earlier in the session, the pause flag is set when the call returns,
\* whatever resolve calls happened in between.
C22_EveryRecordCounts ==
    [][(RecordStep /\ recorded[inc_call'.type] >= 1) => two_strike_triggered']_vars

\* C23: there is a request for which run_all_gates returns overall_passed
\* true together with threat_detected true (evaluated over every request
\* of the model, in the states where run_all_gates has been called).
C23_PassWithThreat ==
    gate_call.called =>
        \E request \in Requests :
            /\ RunAllGates(request).overall_passed
            /\ RunAllGates(request).threat_detected

\* A step that is a resolve call.
ResolveStep == inc_call'.op = "resolve" /\ recorded' = recorded

\* C24: a resolve call returns true exactly for an id that is in the log;
\* it then changes only that incident's status and resolution (its type,
\* which stands for the fields record wrote, every other incident and the
\* number of incidents stay as they were); for an id that is not in the log
\* it changes nothing, the session counts and the pause flag included.
C24_Step ==
    ResolveStep =>
        /\ inc_call'.ret <=> inc_call'.id \in 1..Len(inc_log)
        /\ Len(inc_log') = Len(inc_log)
        /\ \A k \in 1..Len(inc_log) :
              /\ inc_log'[k].type = inc_log[k].type
              /\ k # inc_call'.id => inc_log'[k] = inc_log[k]
        /\ ~inc_call'.ret =>
              /\ inc_log' = inc_log
              /\ session_counts' = session_counts
              /\ two_strike_triggered' = two_strike_triggered

\* C24: every resolve step satisfies the frame rule above.
C24_ResolveFrame == [][C24_Step]_vars

C24_Witness ==
    /\ inc_call.op = "resolve"
    /\ inc_call.ret
    /\ Len(inc_log) >= 3
    /\ inc_log[inc_call.id].status = "resolved"
    /\ \E k \in 1..Len(inc_log) :
          /\ k # inc_call.id
          /\ inc_log[k].type = inc_log[inc_call.id].type
          /\ inc_log[k].status = "open"

\* The order of the statuses of an incident.
StatusRank(status) == CASE status = "open" -> 0 [] status = "investigating" -> 1 [] OTHER -> 2

C25_Step ==
    \A k \in 1..Len(inc_log) :
        /\ StatusRank(inc_log'[k].status) >= StatusRank(inc_log[k].status)
        /\ inc_log[k].status = "resolved" => inc_log'[k].resolution = inc_log[k].resolution

\* C25: the status of an incident never moves backwards along open,
\* investigating, resolved, and the resolution record of an incident that
\* is already resolved is never changed by a later step.
C25_ResolvedOnce == [][C25_Step]_vars

\* A step that is a validate_operation call on the Constitution.
ValidateStep == edits' = edits /\ validate_result'.called

C26_Step ==
    ValidateStep =>
        LET op == validate_result'.op
            outcome == validate_result'.outcome
        IN /\ ~VerifyImmutability => outcome = "ConstitutionalViolation"
           /\ ~Altered =>
                 /\ ViolatesPrimeDirective(op) /\ ProhibitedOperation(op)
                       => outcome = "PrimeDirectiveViolation"
                 /\ ~ViolatesPrimeDirective(op) /\ ProhibitedOperation(op)
                       => outcome = "ProhibitedOperationViolation"

\* C26: validate_operation checks the fingerprint first, then the
\* constraints of the level with the Prime-Directive scan, then the
\* prohibited patterns: a failed fingerprint raises ConstitutionalViolation
\* whatever the operation; on the ruleset as loaded, a prohibited skill with
\* a harmful keyword raises PrimeDirectiveViolation and a prohibited skill
\* without one raises ProhibitedOperationViolation, at every level.
C26_CheckOrder == [][C26_Step]_vars

C26_Witness ==
    /\ validate_result.called
    /\ ~validate_result.altered
    /\ ViolatesPrimeDirective(validate_result.op)
    /\ ProhibitedOperation(validate_result.op)
    /\ validate_result.op.authority_level = READ_ONLY
    /\ validate_result.outcome = "PrimeDirectiveViolation"

C27_Step ==
    /\ current_authority' # current_authority /\ current_authority' >= SENIOR
          => /\ ak_call'.op = "approve_escalation"
             /\ ak_call'.approved
             /\ ak_call'.status_before = "pending"
    /\ ak_call'.calls # ak_call.calls /\ ak_call'.op = "approve_escalation"
          /\ ak_call'.status_before \in {"approved", "denied"}
          => current_authority' = current_authority

\* C27: the authority level becomes SENIOR or higher only in an
\* approve_escalation call with approved = True on a request whose status
\* is still pending, and an approve_escalation call on a request that was
\* already approved or denied leaves the authority level as it was.
C27_OnlyPendingApprovalRaises == [][C27_Step]_vars

\* C28: after an execute_with_authority call made with less authority than
\* the operation requires, the function was not invoked, the call failed
\* and the audit log ends with the "access_denied" entry of the call; after
\* a call that invoked the function, the audit log holds the "pending"
\* entry for the operation that the call appended.
C28_AuditedExecution ==
    ak_call.op = "execute_with_authority" =>
        LET appended ==
                /\ Len(ak_audit) = ak_call.audit_before + 1
                /\ ak_call.logged
        IN /\ ~CanAccess(ak_call.authority_before, RequiredAuthority(ak_call.operation))
                 => /\ ~ak_call.invoked
                    /\ ~ak_call.success
                    /\ appended
                    /\ appended => ak_audit[Len(ak_audit)].action = "access_denied"
           /\ ak_call.invoked
                 => /\ appended
                    /\ appended =>
                          ak_audit[Len(ak_audit)] =
                              [action |-> ak_call.operation, result |-> "pending"]

\* The decisions the approval history holds for an approval id.
Decisions(approval_id) ==
    {k \in 1..Len(approval_history) : approval_history[k].id = approval_id}

C29_DecidedOnce ==
    \A id \in ApprovalIds : Cardinality(Decisions(id)) <= 1 /\ executed[id] <= 1

C29_Step ==
    orch_call'.op \in {"approve", "reject"} /\ orch_call'.id \notin pending_approvals
        => /\ ~orch_call'.success
           /\ pending_approvals' = pending_approvals
           /\ approval_history' = approval_history
           /\ executed' = executed

\* C29: every approval id has at most one decision in the approval history
\* and its action is executed at most once, and an approve or reject call
\* on an id that is not pending fails and leaves the pending set, the
\* history and the executions as they were.
C29_SingleDecision == []C29_DecidedOnce /\ [][C29_Step]_vars

C29_Witness ==
    /\ orch_call.op = "approve"
    /\ ~orch_call.was_pending
    /\ ~orch_call.success
    /\ executed[orch_call.id] = 1
    /\ Cardinality(Decisions(orch_call.id)) = 1
    /\ pending_approvals # {}

\* C30: on the ruleset as loaded, a validate_operation call for a skill in
\* the allowed set of the operation's level, with an empty description and
\* empty parameters, raises nothing.
C30_AllowedSkillsPass ==
    /\ validate_result.called
    /\ ~validate_result.altered
    /\ validate_result.op.skill_name \in SkillsAllowed(validate_result.op.authority_level)
    /\ validate_result.op.description = {}
    /\ validate_result.op.parameters = {}
    => validate_result.outcome = "ok"

=============================================================================
